---------------------------- MODULE Spec2Model ----------------------------
(***************************************************************************)
(* Model of the bastion agent's secure tool-dispatch pipeline:             *)
(*   agent/security/sanitizer.py, agent/security/allowlist.py,             *)
(*   agent/security/approval.py, agent/security/audit.py,                  *)
(*   agent/inventory.py, agent/tools/registry.py, agent/tools/*.py and     *)
(*   the daemon entry point of agent/main.py.                              *)
(*                                                                         *)
(* Strings are sequences of one-character strings.  The control characters *)
(* newline, carriage return, NUL and TAB are written "LF", "CR", "NUL" and *)
(* "TAB", the backtick "BQ".                                               *)
(***************************************************************************)
EXTENDS Integers, Sequences, FiniteSets, TLC

VARIABLES
    entry,            \* CLI command that built the agent: "run" or "daemon"
    registry_config,  \* ToolRegistry._config (the AgentConfig given to __init__)
    agent_cfg,        \* the AgentConfig the entry point hands to ConversationClient
    servers,          \* Inventory._servers: server name -> ServerDefinition
    pc,               \* position of the dispatch coroutine
    tool_name,        \* dispatch argument
    tool_input,       \* dispatch argument: field -> string
    audit,            \* audit records written by the current dispatch
    stages,           \* pipeline stages the current dispatch has run, in order
    checks,           \* allowlist checks the current dispatch has run
    prompts,          \* operator prompts opened by the current dispatch
    approval,         \* what the approval gate of the current dispatch decided
    effects,          \* what tool.execute was started on in the current dispatch
    tool_result,      \* the ToolResult tool.execute returned in the current dispatch
    result,           \* what the dispatch returned or raised
    fn,               \* pure-function harness: which function is under test
    fn_arg,           \* pure-function harness: its argument
    fn_perm,          \* pure-function harness: the RolePermissions argument
    fn_out,           \* pure-function harness: its result
    messages,         \* ConversationClient._messages
    client_pc,        \* position of the session loop and of _process_response
    iterations,       \* _process_response: iterations
    attempt,          \* _api_call_with_retry: attempt
    pending,          \* tool_use blocks of the response not yet handled
    tool_results,     \* _process_response: tool_results
    next_id,          \* id the API gives the next tool_use block
    cancel_event,     \* ConversationClient._cancel_event: "none", "clear", "set"
    api_requests,     \* messages.create calls submitted in the current turn
    dispatches,       \* registry.dispatch calls made in the current turn
    ending,           \* how the last process_message ended
    turns,            \* messages processed so far
    max_conversation_tokens,  \* AgentConfig.max_conversation_tokens
    max_tool_iterations,      \* AgentConfig.max_tool_iterations
    conn,             \* DaemonUI connection: "none", "open", "eof"
    sent,             \* events the latest step that wrote to the UI passed to it
    store,            \* SessionStore: what the last save of the session wrote
    sleeping,         \* seconds of the backoff sleep in progress (0: none)
    taken_over,       \* the connection was installed under a running session
    installed,        \* DaemonUI._reader/_writer: the peer they belong to (0: None)
    peers,            \* the clients of the socket: handler position, transport, events
    daemon,           \* shutdown of the daemon: DaemonUI's events and server, the loop
    child,            \* RunLocalCommand.execute under wait_for, and its subprocess
    send,             \* a `bastion send` client, its socket, and the session serving it
    files,            \* the sessions directory: session id -> file
    clock,            \* time.time()
    session           \* session loop: session_id and created_at

dispatchVars == <<entry, registry_config, agent_cfg, servers, pc, tool_name,
                  tool_input, audit, stages, checks, prompts, approval, effects,
                  tool_result, result>>
fnVars == <<fn, fn_arg, fn_perm, fn_out>>
clientVars == <<messages, client_pc, iterations, attempt, pending, tool_results,
                next_id, cancel_event, api_requests, dispatches, ending, turns,
                max_conversation_tokens,
                   max_tool_iterations, conn, sent, store, sleeping,
                taken_over>>
connectVars == <<installed, peers, daemon>>
storeVars == <<files, clock, session>>
localVars == <<child, send>>

vars == <<dispatchVars, fnVars, clientVars, connectVars, storeVars, localVars>>

---------------------------------------------------------------------------
(* String primitives (Python str methods used by the code)                 *)

\* str.strip() / str.isspace(): the whitespace characters of the alphabet.
Whitespace == {" ", "TAB", "LF", "CR"}

\* Characters matched by \w (the complement is where \b can fall).
WordChars == {"a", "b", "c", "d", "e", "f", "g", "h", "i", "j", "k", "l", "m",
              "n", "o", "p", "r", "s", "t", "u", "v", "x", "0", "1", "_"}

RECURSIVE LStrip(_, _)
LStrip(s, cs) ==
    IF s # <<>> /\ Head(s) \in cs THEN LStrip(Tail(s), cs) ELSE s

RECURSIVE RStrip(_, _)
RStrip(s, cs) ==
    IF s # <<>> /\ s[Len(s)] \in cs THEN RStrip(SubSeq(s, 1, Len(s) - 1), cs) ELSE s

Strip(s) == RStrip(LStrip(s, Whitespace), Whitespace)

StartsWith(s, prefix) ==
    /\ Len(prefix) <= Len(s)
    /\ SubSeq(s, 1, Len(prefix)) = prefix

\* sub in s, for strings.
Contains(s, sub) ==
    \E i \in 1..(Len(s) - Len(sub) + 1) : SubSeq(s, i, i + Len(sub) - 1) = sub

\* any(c in s for c in cs) / re.search('[cs]', s)
HasAny(s, cs) == \E i \in 1..Len(s) : s[i] \in cs

\* str.split(sep) for a one-character separator.
RECURSIVE Split(_, _)
Split(s, sep) ==
    IF \A i \in 1..Len(s) : s[i] # sep
    THEN <<s>>
    ELSE LET k == CHOOSE i \in 1..Len(s) :
                      s[i] = sep /\ \A j \in 1..(i - 1) : s[j] # sep
         IN <<SubSeq(s, 1, k - 1)>> \o Split(SubSeq(s, k + 1, Len(s)), sep)

\* sep.join(parts)
RECURSIVE Join(_, _)
Join(parts, sep) ==
    IF parts = <<>> THEN <<>>
    ELSE IF Len(parts) = 1 THEN parts[1]
    ELSE parts[1] \o <<sep>> \o Join(Tail(parts), sep)

---------------------------------------------------------------------------
(* agent/security/sanitizer.py                                             *)

\* re.search(r'\$[\({]', s)
HasSubstitution(s) ==
    \E i \in 1..(Len(s) - 1) : s[i] = "$" /\ s[i + 1] \in {"(", "{"}

\* re.search(r'\.\.', s)
HasDotDot(s) == \E i \in 1..(Len(s) - 1) : s[i] = "." /\ s[i + 1] = "."

\* re.search(r'>\s*/', s): ">" then any run of whitespace then "/".
HasRedirectAbs(s) ==
    \E i \in 1..Len(s) : \E j \in (i + 1)..Len(s) :
        /\ s[i] = ">"
        /\ s[j] = "/"
        /\ \A k \in (i + 1)..(j - 1) : s[k] \in Whitespace

\* re.search(r'>>\s*/', s)
HasAppendAbs(s) ==
    \E i \in 1..(Len(s) - 1) : \E j \in (i + 2)..Len(s) :
        /\ s[i] = ">" /\ s[i + 1] = ">"
        /\ s[j] = "/"
        /\ \A k \in (i + 2)..(j - 1) : s[k] \in Whitespace

\* re.search(r'\b(eval|exec)\b', s)
HasEvalExec(s) ==
    \E i \in 1..(Len(s) - 3) :
        /\ SubSeq(s, i, i + 3) \in {<<"e", "v", "a", "l">>, <<"e", "x", "e", "c">>}
        /\ (i = 1 \/ s[i - 1] \notin WordChars)
        /\ (i + 3 = Len(s) \/ s[i + 4] \notin WordChars)

\* FORBIDDEN_PATTERNS zipped with _PATTERN_REASONS, in list order: the
\* reasons of the patterns that match.
ForbiddenMatches(s) ==
    <<IF HasAny(s, {";", "&", "|"}) THEN "command chaining characters" ELSE "",
      IF HasSubstitution(s) THEN "command/variable substitution" ELSE "",
      IF HasAny(s, {"BQ"}) THEN "backtick substitution" ELSE "",
      IF HasDotDot(s) THEN "path traversal (..)" ELSE "",
      IF HasRedirectAbs(s) THEN "redirect to absolute path" ELSE "",
      IF HasAppendAbs(s) THEN "append to absolute path" ELSE "",
      IF HasEvalExec(s) THEN "eval/exec keyword" ELSE "",
      IF HasAny(s, {"LF", "CR", "NUL"}) THEN "newline/null-byte injection" ELSE "">>

\* The string "" when the value passes, else the reason of the
\* SanitizationError that is raised.
Passed == ""

\* sanitizer.check_command: the first pattern that matches raises.
SanCheckCommand(command) ==
    LET m == ForbiddenMatches(command)
        hit == {i \in 1..Len(m) : m[i] # ""}
    IN IF hit = {} THEN Passed
       ELSE m[CHOOSE i \in hit : \A j \in hit : i <= j]

\* sanitizer.check_path
SanCheckPath(path) ==
    IF HasDotDot(path) THEN "path traversal (..)"
    ELSE IF HasAny(path, {";", "&", "|", "BQ"}) THEN "shell metacharacters in path"
    ELSE IF HasSubstitution(path) THEN "command/variable substitution in path"
    ELSE IF HasAny(path, {"LF", "CR", "NUL"}) THEN "newline/null-byte in path"
    ELSE Passed

\* The fields of the loop: for field in ("container", "service", "server").
NameFields == <<"container", "service", "server">>

\* re.search(r'[;&|BQ$]', value), BQ the backtick
SanCheckName(value) ==
    IF HasAny(value, {";", "&", "|", "BQ", "$"}) THEN "shell metacharacters" ELSE Passed

\* The outcome of sanitize(tool_name, tool_input): [ok |-> TRUE, value |-> the
\* dict returned] or [ok |-> FALSE, field, reason] for the SanitizationError.
Rejected(field, reason) ==
    [ok |-> FALSE, field |-> field, reason |-> reason, value |-> <<>>]

Accepted(input) == [ok |-> TRUE, field |-> "", reason |-> "", value |-> input]

Sanitize(name, input) ==
    LET bad == {i \in 1..Len(NameFields) :
                    /\ NameFields[i] \in DOMAIN input
                    /\ SanCheckName(input[NameFields[i]]) # Passed}
    IN IF "command" \in DOMAIN input /\ SanCheckCommand(input["command"]) # Passed
       THEN Rejected("command", SanCheckCommand(input["command"]))
       ELSE IF "path" \in DOMAIN input /\ SanCheckPath(input["path"]) # Passed
       THEN Rejected("path", SanCheckPath(input["path"]))
       ELSE IF bad # {}
       THEN Rejected(NameFields[CHOOSE i \in bad : \A j \in bad : i <= j],
                     "shell metacharacters")
       ELSE Accepted(input)

---------------------------------------------------------------------------
(* agent/security/allowlist.py                                             *)

\* fnmatch.fnmatch(name, pattern) on POSIX (normcase is the identity):
\* "*" matches any run of characters, "?" any one character, every other
\* character itself; the whole name must match.
RECURSIVE FnMatch(_, _)
FnMatch(name, pattern) ==
    IF pattern = <<>> THEN name = <<>>
    ELSE IF Head(pattern) = "*"
    THEN \/ FnMatch(name, Tail(pattern))
         \/ name # <<>> /\ FnMatch(Tail(name), pattern)
    ELSE /\ name # <<>>
         /\ Head(pattern) = "?" \/ Head(pattern) = Head(name)
         /\ FnMatch(Tail(name), Tail(pattern))

\* The characters of the defense-in-depth test of is_command_permitted.
DangerousChars == {";", "|", "&", "BQ", "LF", "CR", "NUL"}

IsCommandPermitted(command, permissions) ==
    LET command_stripped == Strip(command)
    IN IF HasAny(command_stripped, DangerousChars) THEN FALSE
       ELSE \E i \in 1..Len(permissions.allowed_commands) :
                FnMatch(command_stripped, permissions.allowed_commands[i])

\* os.path.normpath (posixpath): the loop over the components.
RECURSIVE NormComps(_, _, _)
NormComps(comps, new_comps, initial_slashes) ==
    IF comps = <<>> THEN new_comps
    ELSE LET comp == Head(comps)
             n == Len(new_comps)
         IN IF comp \in {<<>>, <<".">>}
            THEN NormComps(Tail(comps), new_comps, initial_slashes)
            ELSE IF \/ comp # <<".", ".">>
                    \/ (initial_slashes = 0 /\ n = 0)
                    \/ (n > 0 /\ new_comps[n] = <<".", ".">>)
            THEN NormComps(Tail(comps), Append(new_comps, comp), initial_slashes)
            ELSE IF n > 0
            THEN NormComps(Tail(comps), SubSeq(new_comps, 1, n - 1), initial_slashes)
            ELSE NormComps(Tail(comps), new_comps, initial_slashes)

\* _normalize_path(path) == os.path.normpath(path)
NormalizePath(path) ==
    IF path = <<>> THEN <<".">>
    ELSE LET initial_slashes ==
                 IF ~StartsWith(path, <<"/">>) THEN 0
                 ELSE IF StartsWith(path, <<"/", "/">>) /\ ~StartsWith(path, <<"/", "/", "/">>)
                 THEN 2 ELSE 1
             joined == Join(NormComps(Split(path, "/"), <<>>, initial_slashes), "/")
             out == [i \in 1..initial_slashes |-> "/"] \o joined
         IN IF out = <<>> THEN <<".">> ELSE out

\* One allowed prefix of is_path_readable / is_path_writable.
PathUnder(normalized, allowed) ==
    LET allowed_norm == RStrip(allowed, {"/"}) \o <<"/">>
    IN \/ StartsWith(normalized, allowed_norm)
       \/ normalized = RStrip(allowed_norm, {"/"})

IsPathReadable(path, permissions) ==
    LET normalized == NormalizePath(path)
    IN \E i \in 1..Len(permissions.allowed_paths_read) :
           PathUnder(normalized, permissions.allowed_paths_read[i])

---------------------------------------------------------------------------
(* agent/security/approval.py                                              *)

ALWAYS_SAFE_TOOLS == {"list_servers", "query_metrics"}

\* str.lower(), one character at a time.
LowerChar(c) ==
    CASE c = "R" -> "r"
      [] c = "M" -> "m"
      [] c = "D" -> "d"
      [] c = "F" -> "f"
      [] OTHER -> c

Lower(s) == [i \in 1..Len(s) |-> LowerChar(s[i])]

\* Python values as the approval check sees them: a string, a mapping (its
\* items in insertion order, each <<key, value>>), a list, a tuple, and
\* anything else (int, bool, None: "other").
Str(s) == [t |-> "str", v |-> s]
Other(n) == [t |-> "other", v |-> n]
Dict(items) == [t |-> "dict", v |-> items]
List(items) == [t |-> "list", v |-> items]
Tuple(items) == [t |-> "tuple", v |-> items]

\* The tool_input of a dispatch: a mapping from field names to strings.
RECURSIVE ItemsOf(_, _)
ItemsOf(input, keys) ==
    IF keys = {} THEN <<>>
    ELSE LET k == CHOOSE x \in keys : TRUE
         IN <<(<<k, Str(input[k])>>)>> \o ItemsOf(input, keys \ {k})

ToolInput(input) == Dict(ItemsOf(input, DOMAIN input))

\* Faulty variant: tuples are not descended into.
RECURSIVE ExtractStringValuesSkippingTuples(_)
ExtractStringValuesSkippingTuples(obj) ==
    IF obj.t = "str" THEN <<obj.v>>
    ELSE IF obj.t = "dict" THEN
        IF obj.v = <<>> THEN <<>>
        ELSE ExtractStringValuesSkippingTuples(Head(obj.v)[2])
             \o ExtractStringValuesSkippingTuples(Dict(Tail(obj.v)))
    ELSE IF obj.t = "list" THEN
        IF obj.v = <<>> THEN <<>>
        ELSE ExtractStringValuesSkippingTuples(Head(obj.v))
             \o ExtractStringValuesSkippingTuples(List(Tail(obj.v)))
    ELSE <<>>

\* _extract_string_values(obj): the string values of a nested structure, in
\* order; the keys of a mapping are not values.
RECURSIVE ExtractStringValues(_)
ExtractStringValues(obj) ==
    IF obj.t = "str" THEN <<obj.v>>
    ELSE IF obj.t = "dict" THEN
        IF obj.v = <<>> THEN <<>>
        ELSE ExtractStringValues(Head(obj.v)[2])
             \o ExtractStringValues(Dict(Tail(obj.v)))
    ELSE IF obj.t \in {"list", "tuple"} THEN
        IF obj.v = <<>> THEN <<>>
        ELSE ExtractStringValues(Head(obj.v))
             \o ExtractStringValues([t |-> obj.t, v |-> Tail(obj.v)])
    ELSE <<>>

RequiresApproval(name, input, approval_patterns) ==
    IF name \in ALWAYS_SAFE_TOOLS THEN FALSE
    ELSE LET values_to_check == ExtractStringValues(input)
         IN \E v \in 1..Len(values_to_check) :
                \E i \in 1..Len(approval_patterns) :
                    Contains(Lower(values_to_check[v]), Lower(approval_patterns[i]))

\* Faulty variant: request_approval prompts whatever the mode.
RequestApprovalPromptsInEveryMode(mode) == TRUE

\* request_approval in AUTO_DENY mode returns False without prompting; in
\* INTERACTIVE mode it prompts and the answer decides.  TRUE when the call
\* has to wait for the operator.
RequestApprovalPrompts(mode) == mode # "auto_deny"

\* The operator's input(), after .strip().lower(); "EOF" is EOFError or
\* KeyboardInterrupt.
OperatorResponses == {"y", "yes", "n", "", "EOF"}

Approved(response) == response \in {"y", "yes"}

---------------------------------------------------------------------------
(* agent/config.py, agent/inventory.py: the loaded configuration           *)

Localhost == <<"l", "o", "c", "a", "l", "h", "o", "s", "t">>
GameServer == <<"g", "s", "1">>

\* RolePermissions() with every list empty (the default of roles.get).
NoPermissions ==
    [allowed_commands |-> <<>>, allowed_paths_read |-> <<>>]

\* PermissionsConfig.roles of the model's permissions.yaml.
Roles ==
    [bastion |-> [allowed_commands |-> <<(<<"d", "f">>), (<<"r", "m", "*">>)>>,
                  allowed_paths_read |-> <<(<<"/", "v", "/">>)>>],
     game    |-> [allowed_commands |-> <<(<<"p", "s">>), (<<"r", "m", "*">>)>>,
                  allowed_paths_read |-> <<(<<"/", "e", "/">>)>>]]

\* PermissionsConfig.approval_required_patterns
ApprovalPatterns == <<(<<"r", "m">>)>>

\* ServersConfig.servers: with and without a localhost entry.
ServersWithLocalhost ==
    (Localhost :> [role |-> "bastion", ssh |-> FALSE]) @@
    (GameServer :> [role |-> "game", ssh |-> TRUE])

ServersWithoutLocalhost ==
    (GameServer :> [role |-> "game", ssh |-> TRUE])

\* Inventory.get_server(name): ServerInfo, or KeyError.
KnownServer(srv, name) == name \in DOMAIN srv

GetServer(srv, name) ==
    [name |-> name,
     role |-> srv[name].role,
     ssh |-> srv[name].ssh,
     permissions |-> IF srv[name].role \in DOMAIN Roles
                     THEN Roles[srv[name].role] ELSE NoPermissions]

\* Inventory.get_approval_patterns()
GetApprovalPatterns == ApprovalPatterns

\* AgentConfig.approval_mode values (ApprovalMode).
ApprovalModes == {"interactive", "auto_deny"}

\* main._build_core: the registry is built around the loaded AgentConfig.
BuildCore(loaded_mode) ==
    [agent_cfg |-> [approval_mode |-> loaded_mode],
     registry_config |-> [approval_mode |-> loaded_mode]]

\* main._build_agent / main.run: the loaded configuration is used as it is.
RunEntry(loaded_mode) == BuildCore(loaded_mode)

\* main.daemon: agent_cfg.model_copy(update={"approval_mode": "auto_deny"})
\* makes a new AgentConfig for the ConversationClient; the registry built by
\* _build_core keeps the object it was given.
DaemonEntry(loaded_mode) ==
    LET core == BuildCore(loaded_mode)
    IN [agent_cfg |-> [core.agent_cfg EXCEPT !.approval_mode = "auto_deny"],
        registry_config |-> core.registry_config]

---------------------------------------------------------------------------
(* agent/tools/*.py: the registered tools                                  *)

\* The tools main._build_core registers (asyncssh importable), by name.
RegisteredTools ==
    {"run_local_command", "read_file", "list_servers", "get_server_status",
     "docker_ps", "docker_logs", "service_status", "service_journal",
     "query_metrics", "run_remote_command"}

\* The keyword-only parameters without default of each tool's execute; a call
\* execute(**kwargs) that lacks one raises TypeError.
RequiredKwargs(name) ==
    CASE name = "run_local_command" -> {"command"}
      [] name = "read_file" -> {"server", "path"}
      [] name = "list_servers" -> {}
      [] name = "get_server_status" -> {"server"}
      [] name = "docker_ps" -> {"server"}
      [] name = "docker_logs" -> {"server", "container"}
      [] name = "service_status" -> {"server", "service"}
      [] name = "service_journal" -> {"server", "service"}
      [] name = "query_metrics" -> {"query"}
      [] name = "run_remote_command" -> {"server", "command"}
      [] OTHER -> {}

NoEffect == <<>>

\* A command run or a file read, on the bastion itself or over SSH.
LocalExec(command) ==
    <<[kind |-> "exec", where |-> "local", server |-> <<>>, arg |-> command]>>
RemoteExec(server, command) ==
    <<[kind |-> "exec", where |-> "remote", server |-> server, arg |-> command]>>
LocalRead(path) ==
    <<[kind |-> "read", where |-> "local", server |-> <<>>, arg |-> path]>>
RemoteRead(server, path) ==
    <<[kind |-> "read", where |-> "remote", server |-> server, arg |-> path]>>

\* RunLocalCommand.execute(command, **kwargs): the command is run on the
\* bastion; every other keyword is ignored.
RunLocalCommandExecute(input) == LocalExec(input["command"])

\* RunRemoteCommand.execute(server, command, **kwargs)
RunRemoteCommandExecute(srv, input) ==
    IF ~KnownServer(srv, input["server"]) THEN NoEffect
    ELSE IF ~GetServer(srv, input["server"]).ssh THEN NoEffect
    ELSE RemoteExec(input["server"], input["command"])

\* ReadFile.execute(server, path, lines, **kwargs)
ReadFileExecute(srv, input) ==
    IF input["server"] = Localhost THEN LocalRead(input["path"])
    ELSE IF ~KnownServer(srv, input["server"]) THEN NoEffect
    ELSE IF ~GetServer(srv, input["server"]).ssh THEN NoEffect
    ELSE RemoteRead(input["server"], input["path"])

\* What tool.execute(**input) is started on: the command it runs or the file
\* it reads from the caller's input (the other tools build their own command).
ToolExecute(name, srv, input) ==
    CASE name = "run_local_command" -> RunLocalCommandExecute(input)
      [] name = "run_remote_command" -> RunRemoteCommandExecute(srv, input)
      [] name = "read_file" -> ReadFileExecute(srv, input)
      [] OTHER -> NoEffect

\* ToolResult values the tools can return.
\* The ToolResult values execute returns; "ESC[0m" is text made of ANSI
\* escape codes only.
ToolResults ==
    [output : {"out"}, error : {"", "stderr", "ESC[0m"}, exit_code : {0, 1}]

\* _strip_ansi(text)
StripAnsi(text) == IF text = "ESC[0m" THEN "" ELSE text

\* Faulty variant: success looks at the exit code only.
SuccessByExitCode(r) == r.exit_code = 0

\* ToolResult.success
Success(r) == r.exit_code = 0 /\ r.error = ""

\* ToolResult.to_dict(): the keys of the mapping and their values.
ToDict(r) ==
    [keys |-> IF r.error # "" THEN {"output", "error", "exit_code"}
              ELSE {"output", "exit_code"},
     error |-> StripAnsi(r.error),
     exit_code |-> r.exit_code]

\* An {"error": text} mapping.
ErrorDict(text) == [keys |-> {"error"}, error |-> text, exit_code |-> 0]

---------------------------------------------------------------------------
(* agent/security/audit.py: the records AuditLogger writes                 *)

LogAttempt == [event |-> "tool_attempt", reason |-> ""]
LogDenied(reason) == [event |-> "tool_denied", reason |-> reason]
LogSuccess == [event |-> "tool_success", reason |-> ""]
LogError == [event |-> "tool_error", reason |-> ""]
LogTimeout == [event |-> "tool_timeout", reason |-> ""]

---------------------------------------------------------------------------
(* agent/tools/registry.py: ToolRegistry                                   *)

\* What a dispatch call ends with: a returned mapping or a raised exception.
Returned(mapping) == [kind |-> "return", value |-> mapping, exc |-> ""]
Raised(exc) == [kind |-> "raise", value |-> ErrorDict(""), exc |-> exc]
NoResult == [kind |-> "none", value |-> ErrorDict(""), exc |-> ""]

\* One allowlist check made by _check_allowlist.
Check(kind, server, role, permitted) ==
    [kind |-> kind, server |-> server, role |-> role, permitted |-> permitted]

\* The command branch of _check_allowlist: [outcome, checks].
CheckAllowlistCommand(srv, input) ==
    LET server_name == IF "server" \in DOMAIN input THEN input["server"] ELSE <<>>
    IN IF "command" \in DOMAIN input /\ server_name # <<>>
       THEN IF ~KnownServer(srv, server_name)
            THEN [outcome |-> "KeyError", checks |-> <<>>]
            ELSE LET info == GetServer(srv, server_name)
                     ok == IsCommandPermitted(input["command"], info.permissions)
                 IN [outcome |-> IF ok THEN "ok" ELSE "AllowlistDenied",
                     checks |-> <<Check("command", server_name, info.role, ok)>>]
       ELSE IF "command" \in DOMAIN input
       THEN IF ~KnownServer(srv, Localhost)
            THEN [outcome |-> "AllowlistDenied", checks |-> <<>>]
            ELSE LET info == GetServer(srv, Localhost)
                     ok == IsCommandPermitted(input["command"], info.permissions)
                 IN [outcome |-> IF ok THEN "ok" ELSE "AllowlistDenied",
                     checks |-> <<Check("command", Localhost, info.role, ok)>>]
       ELSE [outcome |-> "ok", checks |-> <<>>]

\* The path branch of _check_allowlist: [outcome, checks].
CheckAllowlistPath(srv, input) ==
    LET server_name == IF "server" \in DOMAIN input THEN input["server"] ELSE <<>>
    IN IF "path" \in DOMAIN input /\ server_name # <<>>
       THEN IF ~KnownServer(srv, server_name)
            THEN [outcome |-> "KeyError", checks |-> <<>>]
            ELSE LET info == GetServer(srv, server_name)
                     ok == IsPathReadable(input["path"], info.permissions)
                 IN [outcome |-> IF ok THEN "ok" ELSE "AllowlistDenied",
                     checks |-> <<Check("path", server_name, info.role, ok)>>]
       ELSE [outcome |-> "ok", checks |-> <<>>]

\* ToolRegistry._check_allowlist(tool_name, tool_input): "ok", or the
\* exception that leaves it, with the checks made up to there.
CheckAllowlist(name, srv, input) ==
    LET c == CheckAllowlistCommand(srv, input)
        p == CheckAllowlistPath(srv, input)
    IN IF c.outcome # "ok" THEN c
       ELSE [outcome |-> p.outcome, checks |-> c.checks \o p.checks]

\* The state of a dispatch call: where it is and what it has done so far.
Call(at, log, done, chk, asked, gate, eff, res) ==
    [pc |-> at, audit |-> log, stages |-> done, checks |-> chk,
     prompts |-> asked, approval |-> gate, effects |-> eff, result |-> res]

\* Stage 5 of dispatch up to the await: tool.execute(**sanitized) is called
\* under asyncio.wait_for; a TypeError of the call is an Exception.
StartExecute(name, srv, input, c) ==
    IF RequiredKwargs(name) \subseteq DOMAIN input
    THEN Call("executing", c.audit, Append(c.stages, "execute"), c.checks,
              c.prompts, c.approval, ToolExecute(name, srv, input), NoResult)
    ELSE Call("done", Append(c.audit, LogError), Append(c.stages, "execute"),
              c.checks, c.prompts, c.approval, NoEffect,
              Returned(ErrorDict("Execution failed")))

\* The denial of stage 4.
HumanDenied(c) ==
    Call("done", Append(c.audit, LogDenied("human_denied")), c.stages, c.checks,
         c.prompts, "denied", NoEffect,
         Returned(ErrorDict("Operation denied by operator")))

\* Stage 4 of dispatch up to the await of request_approval.
ApprovalStage(name, srv, mode, input, c) ==
    LET c4 == [c EXCEPT !.stages = Append(c.stages, "approval")]
    IN IF RequiresApproval(name, ToolInput(input), GetApprovalPatterns)
       THEN IF RequestApprovalPrompts(mode)
            THEN [c4 EXCEPT !.pc = "approval", !.prompts = c.prompts + 1,
                            !.approval = "pending"]
            ELSE HumanDenied(c4)
       ELSE StartExecute(name, srv, input, [c4 EXCEPT !.approval = "not_required"])

\* Faulty variant: an AllowlistDenied of stage 3 is logged and the call goes on.
AllowlistStageGoesOn(name, srv, mode, input, c) ==
    LET a == CheckAllowlist(name, srv, input)
        c3 == [c EXCEPT !.stages = Append(c.stages, "allowlist"),
                        !.checks = a.checks]
    IN IF a.outcome = "AllowlistDenied"
       THEN ApprovalStage(name, srv, mode, input,
                          [c3 EXCEPT !.audit = Append(c.audit, LogDenied("allowlist"))])
       ELSE IF a.outcome = "KeyError"
       THEN [c3 EXCEPT !.pc = "done", !.result = Raised("KeyError")]
       ELSE ApprovalStage(name, srv, mode, input, c3)

\* Stage 3 of dispatch.
AllowlistStage(name, srv, mode, input, c) ==
    LET a == CheckAllowlist(name, srv, input)
        c3 == [c EXCEPT !.stages = Append(c.stages, "allowlist"),
                        !.checks = a.checks]
    IN IF a.outcome = "AllowlistDenied"
       THEN [c3 EXCEPT !.pc = "done",
                       !.audit = Append(c.audit, LogDenied("allowlist")),
                       !.result = Returned(ErrorDict(
                           "Operation not permitted by security policy"))]
       ELSE IF a.outcome = "KeyError"
       THEN [c3 EXCEPT !.pc = "done", !.result = Raised("KeyError")]
       ELSE ApprovalStage(name, srv, mode, input, c3)

\* Faulty variant: the attempt is logged before the input is sanitized.
SanitizeStageLogsAttemptFirst(name, srv, mode, input, c) ==
    LET san == Sanitize(name, input)
        c1 == [c EXCEPT !.stages = Append(c.stages, "sanitize"),
                        !.audit = Append(c.audit, LogAttempt)]
    IN IF ~san.ok
       THEN [c1 EXCEPT !.pc = "done",
                       !.audit = Append(c1.audit, LogDenied("sanitizer")),
                       !.result = Returned(ErrorDict("Input rejected"))]
       ELSE AllowlistStage(name, srv, mode, san.value,
                           [c1 EXCEPT !.stages = Append(c1.stages, "attempt")])

\* Stages 1 and 2 of dispatch.
SanitizeStage(name, srv, mode, input, c) ==
    LET san == Sanitize(name, input)
        c1 == [c EXCEPT !.stages = Append(c.stages, "sanitize")]
    IN IF ~san.ok
       THEN [c1 EXCEPT !.pc = "done",
                       !.audit = Append(c.audit, LogDenied("sanitizer")),
                       !.result = Returned(ErrorDict("Input rejected"))]
       ELSE AllowlistStage(name, srv, mode, san.value,
                           [c1 EXCEPT !.stages = Append(c1.stages, "attempt"),
                                      !.audit = Append(c.audit, LogAttempt)])

\* ToolRegistry.dispatch(tool_name, tool_input) from its entry to its first
\* suspension or to its end.
DispatchEntry(name, srv, mode, input) ==
    LET c0 == Call("idle", <<>>, <<"lookup">>, <<>>, 0, "none", NoEffect, NoResult)
    IN IF name \notin RegisteredTools
       THEN [c0 EXCEPT !.pc = "done",
                       !.result = Returned(ErrorDict("Unknown tool"))]
       ELSE SanitizeStage(name, srv, mode, input, c0)

\* dispatch resumed with the operator's answer.
DispatchApproval(name, srv, input, c, response) ==
    IF Approved(response)
    THEN StartExecute(name, srv, input, [c EXCEPT !.approval = "granted"])
    ELSE HumanDenied(c)

\* Stage 6 of dispatch: execute returned a ToolResult.
DispatchResult(c, r) ==
    [c EXCEPT !.pc = "done",
              !.stages = Append(c.stages, "result"),
              !.audit = Append(c.audit, IF Success(r) THEN LogSuccess ELSE LogError),
              !.result = Returned(ToDict(r))]

\* dispatch: execute raised an Exception.
DispatchException(c) ==
    [c EXCEPT !.pc = "done",
              !.audit = Append(c.audit, LogError),
              !.result = Returned(ErrorDict("Execution failed"))]

\* Faulty variant: the timeout is logged and the handler of Exception runs too.
DispatchTimeoutFallsThrough(c) ==
    [c EXCEPT !.pc = "done",
              !.audit = c.audit \o <<LogTimeout, LogError>>,
              !.result = Returned(ErrorDict("Execution failed"))]

\* dispatch: asyncio.wait_for raised TimeoutError.
DispatchTimeout(c) ==
    [c EXCEPT !.pc = "done",
              !.audit = Append(c.audit, LogTimeout),
              !.result = Returned(ErrorDict("Operation timed out"))]

---------------------------------------------------------------------------
(* The tool calls the model issues                                         *)

\* Marks a field the input does not carry.
Absent == <<"ABSENT">>

CommandSamples ==
    {Absent,
     <<"d", "f">>,                      \* on the bastion allowlist only
     <<"p", "s">>,                      \* on the game allowlist only
     <<"r", "m", " ", "x">>,            \* allowed everywhere, needs approval
     <<"d", "f", ";", "r", "m">>}       \* command chaining

PathSamples ==
    {Absent,
     <<"/", "v", "/", "x">>,            \* readable for the bastion role only
     <<"/", "e", "/", "s">>,            \* readable for the game role only
     <<"/", "v", "/", ".", ".", "/", "e">>}

ServerSamples ==
    {Absent, <<>>, Localhost, GameServer,
     <<"n", "o", "p", "e">>,            \* not in the inventory
     <<"g", "s", "1", ";">>}

SinceSamples == {Absent, <<"1", "h">>, <<"1", "h", ";", "r", "m">>}

ServiceSamples == {Absent, <<"n", "g">>}

ToolNameSamples == RegisteredTools \cup {"nonexistent"}

\* The input mapping with the given values, absent fields left out.
MkInput(command, path, server, since, service) ==
    LET all == [command |-> command, path |-> path, server |-> server,
                since |-> since, service |-> service]
    IN [k \in {f \in DOMAIN all : all[f] # Absent} |-> all[k]]

---------------------------------------------------------------------------
(* Specification of the dispatch pipeline                                  *)

\* The result slot of the function harness before and after the call.
NotCalled == [called |-> FALSE, value |-> FALSE]
CalledWith(v) == [called |-> TRUE, value |-> v]

FnIdle ==
    fn = "none" /\ fn_arg = <<>> /\ fn_perm = NoPermissions /\ fn_out = NotCalled

\* No local command is being executed.
NoChild ==
    [pc |-> "none", command |-> "", timeout |-> 0, elapsed |-> 0, proc |-> "none",
     outcome |-> "none"]

\* No `bastion send` client is connected.
NoSend ==
    [cpc |-> "none", first_given |-> FALSE, sent |-> 0, interrupted |-> FALSE,
     cancel_sent |-> FALSE, quitting |-> FALSE, wire |-> <<>>, buffer |-> <<>>,
     down |-> <<>>, dpc |-> "none", cur |-> 0, cancelled |-> FALSE,
     monitor |-> "none", responded |-> FALSE, processed |-> FALSE, open |-> FALSE,
     consumed |-> <<>>, raised |-> "none", dropped |-> 0, cancels |-> 0]

\* No session is running (the conversation loop is not part of these runs).
NothingSaved == [saved |-> FALSE, messages |-> <<>>]

\* No client has connected to the socket.
\* A daemon that is not running (the shutdown is not part of these runs).
NoDaemon ==
    [loop |-> "none", shutdown |-> FALSE, client_connected |-> FALSE,
     reader |-> FALSE, peer |-> "none", server |-> "none", socket |-> FALSE,
     stops |-> 0, signals |-> 0, connections |-> 0, stopped_in |-> "none"]

ConnectIdle == installed = 0 /\ peers = <<>> /\ daemon = NoDaemon

\* The session loop's view of no session: no id, created_at None (an
\* optional value is <<>> for None and <<x>> for x), an empty history; of
\* the connection, the number of frames get_input has read from it, the
\* `resume` of DaemonUI.last_metadata, and the events the loop sent
\* between reading the latest frame and processing its message.
NoSession ==
    [pc |-> "idle", session_id |-> 0, created_at |-> <<>>, messages |-> <<>>,
     frames |-> 0, last_metadata |-> <<>>, events |-> <<>>]

\* No session file is written.
StoreIdle == files = <<>> /\ clock = 0 /\ session = NoSession

\* No conversation is running.
SessionIdle ==
    /\ sleeping = 0
    /\ taken_over = FALSE
    /\ messages = <<>>
    /\ client_pc = "idle"
    /\ iterations = 0
    /\ attempt = 0
    /\ pending = <<>>
    /\ tool_results = <<>>
    /\ next_id = 1
    /\ cancel_event = "none"
    /\ api_requests = 0
    /\ dispatches = 0
    /\ ending = "none"
    /\ turns = 0
    /\ max_conversation_tokens = 0
    /\ max_tool_iterations = 0
    /\ conn = "none"
    /\ sent = <<>>
    /\ store = NothingSaved

LocalIdle == child = NoChild /\ send = NoSend

ClientIdle == SessionIdle /\ ConnectIdle /\ StoreIdle /\ LocalIdle

SetCall(c) ==
    /\ pc' = c.pc
    /\ audit' = c.audit
    /\ stages' = c.stages
    /\ checks' = c.checks
    /\ prompts' = c.prompts
    /\ approval' = c.approval
    /\ effects' = c.effects
    /\ result' = c.result

CurrentCall == Call(pc, audit, stages, checks, prompts, approval, effects, result)

configVars == <<entry, registry_config, agent_cfg, servers>>

Init ==
    /\ entry \in {"run", "daemon"}
    /\ \E loaded_mode \in ApprovalModes :
           LET built == IF entry = "daemon" THEN DaemonEntry(loaded_mode)
                        ELSE RunEntry(loaded_mode)
           IN /\ registry_config = built.registry_config
              /\ agent_cfg = built.agent_cfg
    /\ servers \in {ServersWithLocalhost, ServersWithoutLocalhost}
    /\ pc = "idle"
    /\ tool_name = ""
    /\ tool_input = <<>>
    /\ audit = <<>>
    /\ stages = <<>>
    /\ checks = <<>>
    /\ prompts = 0
    /\ approval = "none"
    /\ effects = NoEffect
    /\ tool_result = NotCalled
    /\ result = NoResult
    /\ FnIdle
    /\ ClientIdle

\* The conversation loop awaits registry.dispatch(block.name, block.input).
Dispatch ==
    /\ pc = "idle"
    /\ \E name \in ToolNameSamples, command \in CommandSamples,
          path \in PathSamples, server \in ServerSamples,
          since \in SinceSamples, service \in ServiceSamples :
           LET input == MkInput(command, path, server, since, service)
           IN /\ tool_name' = name
              /\ tool_input' = input
              /\ SetCall(DispatchEntry(name, servers,
                                       registry_config.approval_mode, input))
    /\ UNCHANGED <<configVars, tool_result, fnVars, localVars, clientVars,
                   connectVars, storeVars>>

\* The operator answers the prompt of request_approval (or input() fails).
OperatorAnswers ==
    /\ pc = "approval"
    /\ \E response \in OperatorResponses :
           SetCall(DispatchApproval(tool_name, servers, tool_input,
                                    CurrentCall, response))
    /\ UNCHANGED <<configVars, tool_name, tool_input, tool_result, fnVars, localVars, clientVars,
                   connectVars, storeVars>>

\* tool.execute returns a ToolResult before the deadline.
ExecuteReturns ==
    /\ pc = "executing"
    /\ \E r \in ToolResults :
           /\ tool_result' = CalledWith(r)
           /\ SetCall(DispatchResult(CurrentCall, r))
    /\ UNCHANGED <<configVars, tool_name, tool_input, fnVars, localVars, clientVars,
                   connectVars, storeVars>>

\* tool.execute raises an Exception.
ExecuteRaises ==
    /\ pc = "executing"
    /\ SetCall(DispatchException(CurrentCall))
    /\ UNCHANGED <<configVars, tool_name, tool_input, tool_result, fnVars, localVars, clientVars,
                   connectVars, storeVars>>

\* The command_timeout deadline elapses first.
ExecuteTimesOut ==
    /\ pc = "executing"
    /\ SetCall(DispatchTimeout(CurrentCall))
    /\ UNCHANGED <<configVars, tool_name, tool_input, tool_result, fnVars, localVars, clientVars,
                   connectVars, storeVars>>

\* The caller takes the result (or the exception) of a finished dispatch.
DispatchEnds ==
    /\ pc = "done"
    /\ pc' = "idle"
    /\ tool_name' = ""
    /\ tool_input' = <<>>
    /\ audit' = <<>>
    /\ stages' = <<>>
    /\ checks' = <<>>
    /\ prompts' = 0
    /\ approval' = "none"
    /\ effects' = NoEffect
    /\ tool_result' = NotCalled
    /\ result' = NoResult
    /\ UNCHANGED <<configVars, fnVars, localVars, clientVars,
                   connectVars, storeVars>>

Next ==
    \/ Dispatch
    \/ OperatorAnswers
    \/ ExecuteReturns
    \/ ExecuteRaises
    \/ ExecuteTimesOut
    \/ DispatchEnds

Spec == Init /\ [][Next]_vars

---------------------------------------------------------------------------
(* Specifications of the pure functions: the argument is drawn in the      *)
(* initial state and one action applies the function to it.                *)

\* All strings over an alphabet up to a length.
Strings(alphabet, n) == UNION {[1..k -> alphabet] : k \in 0..n}

\* No dispatch is in progress (the pipeline is not part of these runs).
PipelineIdle ==
    /\ entry = "run"
    /\ registry_config = RunEntry("interactive").registry_config
    /\ agent_cfg = RunEntry("interactive").agent_cfg
    /\ servers = ServersWithLocalhost
    /\ pc = "idle"
    /\ tool_name = ""
    /\ tool_input = <<>>
    /\ audit = <<>>
    /\ stages = <<>>
    /\ checks = <<>>
    /\ prompts = 0
    /\ approval = "none"
    /\ effects = NoEffect
    /\ tool_result = NotCalled
    /\ result = NoResult

DispatchIdle == PipelineIdle /\ ClientIdle

\* --- sanitize -----------------------------------------------------------

MaxSanLen == 2

SanAlphabet == {"a", ";", "&", "|", "BQ", "$"}

SanFields == {"command", "path", "server", "container", "service", "since"}

\* Inputs with one field holding any string and any of the other fields
\* holding a clean value.
SanitizeInputs ==
    {(f :> v) @@ [k \in others |-> <<"a">>] :
        f \in SanFields,
        v \in Strings(SanAlphabet, MaxSanLen),
        others \in SUBSET SanFields}

InitSanitize ==
    /\ DispatchIdle
    /\ fn = "sanitize"
    /\ fn_arg \in SanitizeInputs
    /\ fn_perm = NoPermissions
    /\ fn_out = NotCalled

ApplySanitize ==
    /\ fn = "sanitize"
    /\ ~fn_out.called
    /\ fn_out' = CalledWith(Sanitize("tool", fn_arg))
    /\ UNCHANGED <<dispatchVars, fn, fn_arg, fn_perm, localVars, clientVars,
                   connectVars, storeVars>>

SpecSanitize == InitSanitize /\ [][ApplySanitize]_vars

\* --- check_command ------------------------------------------------------

MaxCheckLen == 4

\* _PATTERN_REASONS, in list order.
PatternReasons ==
    <<"command chaining characters", "command/variable substitution",
      "backtick substitution", "path traversal (..)", "redirect to absolute path",
      "append to absolute path", "eval/exec keyword", "newline/null-byte injection">>

\* Commands: every string over the characters of the redirections, a dot
\* and a letter, and for the other classes strings that hold their pattern.
\* An input is a command and the class (its place in the list) whose
\* reason is looked for.
CheckCommandInputs ==
    Strings({">", " ", "/", ".", "a"}, MaxCheckLen)
    \cup {<<"a", c>> : c \in {";", "&", "|", "BQ", "LF", "CR", "NUL"}}
    \cup {<<"$", "(">>, <<"$", "{">>, <<"e", "v", "a", "l">>, <<"e", "x", "e", "c">>,
          <<"e", "v", "a", "l", ";">>, <<"a", ">", ">", " ", "/", "a">>}

InitCheckCommand ==
    /\ DispatchIdle
    /\ fn = "check_command"
    /\ fn_arg \in [command : CheckCommandInputs, class : 1..Len(PatternReasons)]
    /\ fn_perm = NoPermissions
    /\ fn_out = NotCalled

ApplyCheckCommand ==
    /\ fn = "check_command"
    /\ ~fn_out.called
    /\ fn_out' = CalledWith(SanCheckCommand(fn_arg.command))
    /\ UNCHANGED <<dispatchVars, fn, fn_arg, fn_perm, localVars, clientVars,
                   connectVars, storeVars>>

SpecCheckCommand == InitCheckCommand /\ [][ApplyCheckCommand]_vars

\* --- is_command_permitted -----------------------------------------------

MaxCmdLen == 3

CmdAlphabet == {"u", " ", ";", "|", "&", "BQ", "LF", "CR", "NUL"}

CommandPermissions ==
    {[allowed_commands |-> ac, allowed_paths_read |-> <<>>] :
        ac \in {<<>>,
                <<(<<"*">>)>>,
                <<(<<"u">>)>>,
                <<(<<"u">>), (<<"u", " ", "*">>)>>}}

InitCommand ==
    /\ DispatchIdle
    /\ fn = "is_command_permitted"
    /\ fn_arg \in Strings(CmdAlphabet, MaxCmdLen)
    /\ fn_perm \in CommandPermissions
    /\ fn_out = NotCalled

ApplyIsCommandPermitted ==
    /\ fn = "is_command_permitted"
    /\ ~fn_out.called
    /\ fn_out' = CalledWith(IsCommandPermitted(fn_arg, fn_perm))
    /\ UNCHANGED <<dispatchVars, fn, fn_arg, fn_perm, localVars, clientVars,
                   connectVars, storeVars>>

SpecCommand == InitCommand /\ [][ApplyIsCommandPermitted]_vars

\* --- is_path_readable ---------------------------------------------------

MaxPathLen == 5

PathAlphabet == {"/", ".", "a", "b"}

PathPermissions ==
    {[allowed_commands |-> <<>>, allowed_paths_read |-> ar] :
        ar \in {<<>>,
                <<(<<"/", "a", "/">>)>>,
                <<(<<"/", "a", "/", "b">>)>>,
                <<(<<"/", "a">>), (<<"/", "b", "/">>)>>}}

InitPath ==
    /\ DispatchIdle
    /\ fn = "is_path_readable"
    /\ fn_arg \in Strings(PathAlphabet, MaxPathLen)
    /\ fn_perm \in PathPermissions
    /\ fn_out = NotCalled

ApplyIsPathReadable ==
    /\ fn = "is_path_readable"
    /\ ~fn_out.called
    /\ fn_out' = CalledWith(IsPathReadable(fn_arg, fn_perm))
    /\ UNCHANGED <<dispatchVars, fn, fn_arg, fn_perm, localVars, clientVars,
                   connectVars, storeVars>>

SpecPath == InitPath /\ [][ApplyIsPathReadable]_vars

\* --- requires_approval ---------------------------------------------------

MaxDepth == 2

ApprovalLeaves ==
    {Str(<<"r", "m">>), Str(<<"x", " ", "R", "M">>), Str(<<"d", "f">>), Other(42)}

\* Values nested at most d containers deep: mappings of one and two items
\* (one key spelled like a pattern), lists of up to two items, one-tuples.
RECURSIVE NestedValues(_)
NestedValues(d) ==
    IF d = 0 THEN ApprovalLeaves
    ELSE LET sub == NestedValues(d - 1)
         IN sub
            \cup {Dict(<<(<<(<<"r", "m">>), v>>)>>) : v \in sub}
            \cup {Dict(<<(<<(<<"a">>), l>>), (<<(<<"k">>), v>>)>>) :
                      l \in ApprovalLeaves, v \in sub}
            \cup {List(<<>>)}
            \cup {List(<<v>>) : v \in sub}
            \cup {List(<<l, v>>) : l \in ApprovalLeaves, v \in sub}
            \cup {Tuple(<<v>>) : v \in sub}

ApprovalToolNames == {"list_servers", "query_metrics", "run_local_command"}

ApprovalPatternLists ==
    {<<>>, <<(<<"r", "m">>)>>, <<(<<"s", "t">>), (<<" ", "R", "m">>)>>, <<(<<>>)>>}

InitApproval ==
    /\ DispatchIdle
    /\ fn = "requires_approval"
    /\ fn_arg \in [tool : ApprovalToolNames,
                   input : {v \in NestedValues(MaxDepth) : v.t = "dict"},
                   patterns : ApprovalPatternLists]
    /\ fn_perm = NoPermissions
    /\ fn_out = NotCalled

ApplyRequiresApproval ==
    /\ fn = "requires_approval"
    /\ ~fn_out.called
    /\ fn_out' = CalledWith(RequiresApproval(fn_arg.tool, fn_arg.input, fn_arg.patterns))
    /\ UNCHANGED <<dispatchVars, fn, fn_arg, fn_perm, localVars, clientVars,
                   connectVars, storeVars>>

SpecApproval == InitApproval /\ [][ApplyRequiresApproval]_vars

---------------------------------------------------------------------------
(* agent/client.py: the message history                                    *)

\* A content block of a message: a tool_use of the assistant, a tool_result
\* of the user (cancelled: the synthetic "Operation cancelled by user."
\* result), or text.
ToolUseBlock(id) == [type |-> "tool_use", id |-> id, cancelled |-> FALSE]
ToolResultBlock(id) == [type |-> "tool_result", id |-> id, cancelled |-> FALSE]
CancelledResultBlock(id) == [type |-> "tool_result", id |-> id, cancelled |-> TRUE]
TextBlock == [type |-> "text", id |-> 0, cancelled |-> FALSE]

\* A message of the history: {"role": ..., "content": ...}; text tells a str
\* content from a list of blocks, chars is the number of characters
\* _estimate_tokens counts for it.
Message(role, text, blocks, chars) ==
    [role |-> role, text |-> text, blocks |-> blocks, chars |-> chars]

RECURSIVE TotalChars(_)
TotalChars(msgs) ==
    IF msgs = <<>> THEN 0 ELSE Head(msgs).chars + TotalChars(Tail(msgs))

\* _estimate_tokens(messages): int(total_chars / 3.5)
EstimateTokens(msgs) == (2 * TotalChars(msgs)) \div 7

\* An eviction that drops the newest message.
EvictNewest(msgs) == SubSeq(msgs, 1, Len(msgs) - 1)

\* The body of the while loop of _trim_history: pop(0), and once more if
\* the new front is an assistant message.
EvictFront(msgs) ==
    LET popped == Tail(msgs)
    IN IF popped # <<>> /\ Head(popped).role = "assistant"
       THEN Tail(popped) ELSE popped

\* The while loop of _trim_history.
RECURSIVE TrimLoop(_, _)
TrimLoop(msgs, budget) ==
    IF EstimateTokens(msgs) > budget /\ Len(msgs) > 2
    THEN TrimLoop(EvictFront(msgs), budget)
    ELSE msgs

\* ConversationClient._trim_history(): the history it leaves.
TrimHistory(msgs, budget) ==
    IF EstimateTokens(msgs) <= budget THEN msgs ELSE TrimLoop(msgs, budget)

\* --- _trim_history -------------------------------------------------------

MaxHistory == 4

\* Histories of text messages that begin with the user and never hold two
\* assistant messages in a row.
TrimHistories ==
    {h \in UNION {[1..n -> [role : {"user", "assistant"}, text : {TRUE},
                            blocks : {<<>>}, chars : {7, 70}]] : n \in 0..MaxHistory} :
        /\ h # <<>> => h[1].role = "user"
        /\ \A i \in 1..(Len(h) - 1) :
               ~(h[i].role = "assistant" /\ h[i + 1].role = "assistant")}

TrimBudgets == {0, 4, 22, 1000}

InitTrim ==
    /\ DispatchIdle
    /\ fn = "_trim_history"
    /\ fn_arg \in [messages : TrimHistories, budget : TrimBudgets]
    /\ fn_perm = NoPermissions
    /\ fn_out = NotCalled

ApplyTrimHistory ==
    /\ fn = "_trim_history"
    /\ ~fn_out.called
    /\ fn_out' = CalledWith(TrimHistory(fn_arg.messages, fn_arg.budget))
    /\ UNCHANGED <<dispatchVars, fn, fn_arg, fn_perm, localVars, clientVars,
                   connectVars, storeVars>>

SpecTrim == InitTrim /\ [][ApplyTrimHistory]_vars

---------------------------------------------------------------------------
(* agent/client.py, agent/main.py, agent/ui/daemon.py: the session loop    *)

\* process_message calls in one run of the program.
MaxTurns == 2

\* _RATE_LIMIT_MAX_RETRIES
RATE_LIMIT_MAX_RETRIES == 3

\* _RATE_LIMIT_BASE_DELAY, in seconds
RATE_LIMIT_BASE_DELAY == 2

\* delay = _RATE_LIMIT_BASE_DELAY * (2 ** attempt)
Delay(n) == RATE_LIMIT_BASE_DELAY * 2 ^ n

\* Characters _estimate_tokens counts for one message of these runs.
MessageChars == 7

\* The tool calls the assistant asks for: one that executes, one on a server
\* the inventory does not know, one that needs the operator's approval.
ListServersUse ==
    [name |-> "list_servers",
     input |-> MkInput(Absent, Absent, Absent, Absent, Absent)]

UnknownServerUse ==
    [name |-> "run_remote_command",
     input |-> MkInput(<<"p", "s">>, Absent, <<"n", "o", "p", "e">>, Absent, Absent)]

LocalCommandUse ==
    [name |-> "run_local_command",
     input |-> MkInput(<<"r", "m", " ", "x">>, Absent, Absent, Absent, Absent)]

\* What messages.create returns: the stop reason and the tool_use blocks.
ApiResponses ==
    {[stop_reason |-> "end_turn", tool_uses |-> <<>>],
     [stop_reason |-> "tool_use", tool_uses |-> <<ListServersUse>>],
     [stop_reason |-> "tool_use", tool_uses |-> <<UnknownServerUse>>],
     [stop_reason |-> "tool_use", tool_uses |-> <<ListServersUse, LocalCommandUse>>]}

UserText == Message("user", TRUE, <<>>, MessageChars)

AssistantMessage(resp, first_id) ==
    Message("assistant", FALSE,
            IF resp.tool_uses = <<>> THEN <<TextBlock>>
            ELSE [i \in 1..Len(resp.tool_uses) |-> ToolUseBlock(first_id + i - 1)],
            MessageChars)

ToolResultsMessage(results) == Message("user", FALSE, results, MessageChars)

pipelineVars == <<pc, tool_name, tool_input, audit, stages, checks, prompts,
                  approval, effects, tool_result, result>>

PipelineReset ==
    /\ pc' = "idle"
    /\ tool_name' = ""
    /\ tool_input' = <<>>
    /\ audit' = <<>>
    /\ stages' = <<>>
    /\ checks' = <<>>
    /\ prompts' = 0
    /\ approval' = "none"
    /\ effects' = NoEffect
    /\ tool_result' = NotCalled
    /\ result' = NoResult

\* The session loop is suspended at an await where the monitor task (or the
\* client) can run: the API call, the backoff sleep, a suspended dispatch.
Processing ==
    \/ client_pc \in {"api", "backoff"}
    \/ client_pc = "dispatching" /\ pc \in {"approval", "executing"}

\* process_message ends: by return ("return", "api_error", "cap"), by
\* CancelledByUser ("cancelled") or by another exception ("raise").
EndMessage(how) ==
    /\ client_pc' = "ended"
    /\ ending' = how

InitSession ==
    /\ entry \in {"run", "daemon"}
    /\ registry_config = BuildCore("interactive").registry_config
    /\ agent_cfg = (IF entry = "daemon" THEN DaemonEntry("interactive")
                    ELSE RunEntry("interactive")).agent_cfg
    /\ servers = ServersWithLocalhost
    /\ pc = "idle"
    /\ tool_name = ""
    /\ tool_input = <<>>
    /\ audit = <<>>
    /\ stages = <<>>
    /\ checks = <<>>
    /\ prompts = 0
    /\ approval = "none"
    /\ effects = NoEffect
    /\ tool_result = NotCalled
    /\ result = NoResult
    /\ LocalIdle
    /\ FnIdle
    /\ messages = <<>>
    /\ client_pc = (IF entry = "daemon" THEN "waiting" ELSE "input")
    /\ iterations = 0
    /\ attempt = 0
    /\ pending = <<>>
    /\ tool_results = <<>>
    /\ next_id = 1
    /\ cancel_event = (IF entry = "daemon" THEN "clear" ELSE "none")
    /\ api_requests = 0
    /\ dispatches = 0
    /\ ending = "none"
    /\ turns = 0
    /\ max_conversation_tokens \in {3, 1000}
    /\ max_tool_iterations \in {1, 2}
    /\ sleeping = 0
    /\ taken_over = FALSE
    /\ ConnectIdle
    /\ StoreIdle
    /\ conn = "none"
    /\ sent = <<>>
    /\ store = NothingSaved

Saved(msgs) == [saved |-> TRUE, messages |-> msgs]

\* A finally clause that resets the client without saving.
SessionCleanupUnsaved(connection) ==
    /\ store' = store
    /\ sent' = (IF connection # "none" THEN <<"info", "goodbye">> ELSE <<>>)
    /\ messages' = <<>>
    /\ client_pc' = "waiting"

\* The finally clause of a daemon session: save what there is, say goodbye,
\* reset the client, wait for the next connection.
SessionCleanup(connection) ==
    /\ store' = (IF messages # <<>> THEN Saved(messages) ELSE store)
    /\ sent' = (IF connection # "none" THEN <<"info", "goodbye">> ELSE <<>>)
    /\ messages' = <<>>
    /\ client_pc' = "waiting"

\* DaemonUI._handle_connection accepts a client (after cleaning up a
\* connection whose reader is at EOF).  Between sessions the session loop
\* opens a session for it; while a message is being processed the new
\* connection replaces the stale one under the running session.
ClientConnects ==
    /\ entry = "daemon"
    /\ \/ /\ client_pc = "waiting"
          /\ conn # "open"
          /\ conn' = "open"
          /\ cancel_event' = (IF conn = "eof" THEN "set" ELSE cancel_event)
          /\ client_pc' = "input"
          /\ store' = NothingSaved
          /\ sent' = <<"banner">>
          /\ taken_over' = FALSE
       \/ /\ Processing
          /\ conn = "eof"
          /\ conn' = "open"
          /\ cancel_event' = "set"
          /\ taken_over' = TRUE
          /\ UNCHANGED <<client_pc, store, sent>>
    /\ UNCHANGED <<configVars, pipelineVars, fnVars, localVars, messages, iterations, attempt,
                   pending, tool_results, next_id, api_requests, dispatches,
                   ending, turns, max_conversation_tokens,
                   max_tool_iterations, sleeping,
                   connectVars, storeVars>>

\* The client closes its end of the connection.  While a message is being
\* processed the monitor task reads the EOF and sets the cancel event.
ClientCloses ==
    /\ conn = "open"
    /\ client_pc = "input" \/ client_pc = "waiting" \/ Processing
    /\ conn' = "eof"
    /\ cancel_event' = (IF Processing THEN "set" ELSE cancel_event)
    /\ UNCHANGED <<configVars, pipelineVars, fnVars, localVars, messages, client_pc, iterations,
                   attempt, pending, tool_results, next_id, api_requests,
                   dispatches, ending, turns, max_conversation_tokens,
                   max_tool_iterations, sleeping, taken_over,
                   connectVars, storeVars, sent,
                   store>>

\* The client sends {"type": "cancel"}; the monitor task sets the cancel event.
ClientCancels ==
    /\ conn = "open"
    /\ Processing
    /\ cancel_event = "clear"
    /\ cancel_event' = "set"
    /\ UNCHANGED <<configVars, pipelineVars, fnVars, localVars, messages, client_pc, iterations,
                   attempt, pending, tool_results, next_id, api_requests,
                   dispatches, ending, turns, max_conversation_tokens,
                   max_tool_iterations, sleeping, taken_over,
                   connectVars, storeVars, conn,
                   sent, store>>

\* ui.get_input() returns and the session loop acts on it: a message starts
\* process_message (in the daemon after ui.start_processing()), /quit and a
\* closed connection end the session.
GetInput ==
    /\ client_pc = "input"
    /\ \/ /\ entry = "run" \/ conn = "open"
          /\ turns < MaxTurns
          /\ turns' = turns + 1
          /\ cancel_event' = (IF entry = "daemon" THEN "clear" ELSE cancel_event)
          /\ messages' = Append(messages, UserText)
          /\ iterations' = 0
          /\ api_requests' = 0
          /\ dispatches' = 0
          /\ sent' = <<>>
          /\ client_pc' = "round"
          /\ UNCHANGED <<conn, store, taken_over>>
       \/ /\ entry = "run"
          /\ client_pc' = "closed"
          /\ UNCHANGED <<messages, iterations, api_requests, dispatches, sent,
                         turns, cancel_event, conn, store, taken_over>>
       \/ /\ entry = "daemon"
          /\ conn = "open"
          /\ SessionCleanup(conn)
          /\ UNCHANGED <<iterations, api_requests, dispatches, turns,
                         cancel_event, conn, taken_over>>
       \/ /\ entry = "daemon"
          /\ conn # "open"
          /\ conn' = "none"
          /\ cancel_event' = "set"
          /\ taken_over' = FALSE
          /\ SessionCleanup("none")
          /\ UNCHANGED <<iterations, api_requests, dispatches, turns>>
    /\ UNCHANGED <<configVars, pipelineVars, fnVars, localVars, attempt, pending, tool_results,
                   next_id, ending, max_conversation_tokens,
                   max_tool_iterations, sleeping,
                   connectVars, storeVars>>

\* Faulty variant: the while loop has no iteration limit.
RoundStartUncapped ==
    /\ client_pc = "round"
    /\ IF FALSE
       THEN /\ EndMessage("cap")
            /\ sent' = <<"error">>
            /\ UNCHANGED <<messages, iterations, attempt, api_requests>>
       ELSE /\ iterations' = iterations + 1
            /\ IF cancel_event = "set"
               THEN /\ EndMessage("cancelled")
                    /\ UNCHANGED <<messages, attempt, api_requests, sent>>
               ELSE /\ messages' = TrimHistory(messages, max_conversation_tokens)
                    /\ attempt' = 0
                    /\ api_requests' = api_requests + 1
                    /\ client_pc' = "api"
                    /\ UNCHANGED <<ending, sent>>
    /\ UNCHANGED <<configVars, pipelineVars, fnVars, localVars, pending, tool_results, next_id,
                   cancel_event, dispatches, turns, max_conversation_tokens,
                   max_tool_iterations, sleeping, taken_over,
                   connectVars, storeVars,
                   conn, store>>

\* The head of the while loop of _process_response up to the await in
\* _api_call_with_retry: the iteration cap, the cancel check, _trim_history,
\* the first messages.create.
RoundStart ==
    /\ client_pc = "round"
    /\ IF iterations >= max_tool_iterations
       THEN /\ EndMessage("cap")
            /\ sent' = <<"error">>
            /\ UNCHANGED <<messages, iterations, attempt, api_requests>>
       ELSE /\ iterations' = iterations + 1
            /\ IF cancel_event = "set"
               THEN /\ EndMessage("cancelled")
                    /\ UNCHANGED <<messages, attempt, api_requests, sent>>
               ELSE /\ messages' = TrimHistory(messages, max_conversation_tokens)
                    /\ attempt' = 0
                    /\ api_requests' = api_requests + 1
                    /\ client_pc' = "api"
                    /\ UNCHANGED <<ending, sent>>
    /\ UNCHANGED <<configVars, pipelineVars, fnVars, localVars, pending, tool_results, next_id,
                   cancel_event, dispatches, turns, max_conversation_tokens,
                   max_tool_iterations, sleeping, taken_over,
                   connectVars, storeVars,
                   conn, store>>

\* The await of _api_call_with_retry ends with the cancel event set:
\* CancelledByUser, whatever became of the request.
ApiCancelled ==
    /\ client_pc = "api"
    /\ cancel_event = "set"
    /\ EndMessage("cancelled")
    /\ UNCHANGED <<configVars, pipelineVars, fnVars, localVars, messages, iterations, attempt,
                   pending, tool_results, next_id, cancel_event, api_requests,
                   dispatches, turns, max_conversation_tokens,
                   max_tool_iterations, sleeping, taken_over,
                   connectVars, storeVars, conn, sent,
                   store>>

\* messages.create returns a response: the assistant message is appended; on
\* end_turn process_message returns, otherwise the tool loop begins.
ApiResponds ==
    /\ client_pc = "api"
    /\ cancel_event # "set"
    /\ \E resp \in ApiResponses :
           /\ messages' = Append(messages, AssistantMessage(resp, next_id))
           /\ next_id' = next_id + Len(resp.tool_uses)
           /\ IF resp.stop_reason = "end_turn"
              THEN /\ EndMessage("return")
                   /\ sent' = <<"response">>
                   /\ UNCHANGED <<pending, tool_results>>
              ELSE /\ pending' = [i \in 1..Len(resp.tool_uses) |->
                                     [id |-> next_id + i - 1,
                                      name |-> resp.tool_uses[i].name,
                                      input |-> resp.tool_uses[i].input]]
                   /\ tool_results' = <<>>
                   /\ client_pc' = "tools"
                   /\ UNCHANGED <<ending, sent>>
    /\ UNCHANGED <<configVars, pipelineVars, fnVars, localVars, iterations, attempt,
                   cancel_event, api_requests, dispatches, turns,
                   max_conversation_tokens,
                   max_tool_iterations, sleeping, taken_over,
                   connectVars, storeVars, conn, store>>

\* Faulty variant: the retry loop gives up one rate-limit error later.
ApiRateLimitedOnceMore ==
    /\ client_pc = "api"
    /\ cancel_event # "set"
    /\ sent' = <<"error">>
    /\ IF attempt > RATE_LIMIT_MAX_RETRIES
       THEN /\ messages' = SubSeq(messages, 1, Len(messages) - 1)
            /\ EndMessage("api_error")
            /\ UNCHANGED sleeping
       ELSE /\ sleeping' = Delay(attempt)
            /\ client_pc' = "backoff"
            /\ UNCHANGED <<messages, ending>>
    /\ UNCHANGED <<configVars, pipelineVars, fnVars, localVars, iterations, attempt, pending,
                   tool_results, next_id, cancel_event, api_requests, dispatches,
                   turns, max_conversation_tokens,
                   max_tool_iterations, taken_over,
                   connectVars, storeVars, conn, store>>

\* messages.create raises RateLimitError: after the last retry it is the
\* APIError of _process_response, before that the backoff sleep begins.
ApiRateLimited ==
    /\ client_pc = "api"
    /\ cancel_event # "set"
    /\ sent' = <<"error">>
    /\ IF attempt >= RATE_LIMIT_MAX_RETRIES
       THEN /\ messages' = SubSeq(messages, 1, Len(messages) - 1)
            /\ EndMessage("api_error")
            /\ UNCHANGED sleeping
       ELSE /\ sleeping' = Delay(attempt)
            /\ client_pc' = "backoff"
            /\ UNCHANGED <<messages, ending>>
    /\ UNCHANGED <<configVars, pipelineVars, fnVars, localVars, iterations, attempt, pending,
                   tool_results, next_id, cancel_event, api_requests, dispatches,
                   turns, max_conversation_tokens,
                   max_tool_iterations, taken_over,
                   connectVars, storeVars, conn, store>>

\* asyncio.sleep(delay) ends: the next attempt submits messages.create again.
BackoffEnds ==
    /\ client_pc = "backoff"
    /\ sleeping' = 0
    /\ attempt' = attempt + 1
    /\ api_requests' = api_requests + 1
    /\ client_pc' = "api"
    /\ UNCHANGED <<configVars, pipelineVars, fnVars, localVars, messages, iterations, pending,
                   tool_results, next_id, cancel_event, dispatches, ending, turns,
                   max_conversation_tokens,
                   max_tool_iterations, taken_over,
                   connectVars, storeVars, conn, sent, store>>

\* messages.create raises another APIError: the last message is popped and
\* process_message returns.
ApiFails ==
    /\ client_pc = "api"
    /\ cancel_event # "set"
    /\ messages' = SubSeq(messages, 1, Len(messages) - 1)
    /\ EndMessage("api_error")
    /\ sent' = <<"error">>
    /\ UNCHANGED <<configVars, pipelineVars, fnVars, localVars, iterations, attempt, pending,
                   tool_results, next_id, cancel_event, api_requests, dispatches,
                   turns, max_conversation_tokens,
                   max_tool_iterations, sleeping, taken_over,
                   connectVars, storeVars, conn, store>>

\* Faulty variant: the loop dispatches the blocks of the response from the
\* last to the first.
ToolLoopLastFirst ==
    /\ client_pc = "tools"
    /\ IF pending = <<>>
       THEN /\ messages' = Append(messages, ToolResultsMessage(tool_results))
            /\ IF cancel_event = "set"
               THEN EndMessage("cancelled")
               ELSE client_pc' = "round" /\ UNCHANGED ending
            /\ UNCHANGED <<pipelineVars, pending, tool_results, dispatches, sent>>
       ELSE IF cancel_event = "set"
       THEN /\ tool_results' = Append(tool_results, CancelledResultBlock(Head(pending).id))
            /\ pending' = Tail(pending)
            /\ UNCHANGED <<pipelineVars, messages, client_pc, ending, dispatches,
                           sent>>
       ELSE /\ dispatches' = dispatches + 1
            /\ tool_name' = pending[Len(pending)].name
            /\ tool_input' = pending[Len(pending)].input
            /\ tool_result' = NotCalled
            /\ SetCall(DispatchEntry(pending[Len(pending)].name, servers,
                                     registry_config.approval_mode,
                                     pending[Len(pending)].input))
            /\ client_pc' = "dispatching"
            /\ sent' = <<"tool_call">>
            /\ UNCHANGED <<messages, pending, tool_results, ending>>
    /\ UNCHANGED <<configVars, fnVars, localVars, iterations, attempt, next_id, cancel_event,
                   api_requests, turns, max_conversation_tokens,
                   max_tool_iterations, sleeping, taken_over,
                   connectVars, storeVars, conn,
                   store>>

\* The for loop over the blocks of the response, up to the await of
\* registry.dispatch: a cancel-marked result for a block reached after the
\* cancel, the dispatch of the block otherwise; after the last block the
\* results are appended and the loop goes on or raises CancelledByUser.
ToolLoop ==
    /\ client_pc = "tools"
    /\ IF pending = <<>>
       THEN /\ messages' = Append(messages, ToolResultsMessage(tool_results))
            /\ IF cancel_event = "set"
               THEN EndMessage("cancelled")
               ELSE client_pc' = "round" /\ UNCHANGED ending
            /\ UNCHANGED <<pipelineVars, pending, tool_results, dispatches, sent>>
       ELSE IF cancel_event = "set"
       THEN /\ tool_results' = Append(tool_results, CancelledResultBlock(Head(pending).id))
            /\ pending' = Tail(pending)
            /\ UNCHANGED <<pipelineVars, messages, client_pc, ending, dispatches,
                           sent>>
       ELSE /\ dispatches' = dispatches + 1
            /\ tool_name' = Head(pending).name
            /\ tool_input' = Head(pending).input
            /\ tool_result' = NotCalled
            /\ SetCall(DispatchEntry(Head(pending).name, servers,
                                     registry_config.approval_mode,
                                     Head(pending).input))
            /\ client_pc' = "dispatching"
            /\ sent' = <<"tool_call">>
            /\ UNCHANGED <<messages, pending, tool_results, ending>>
    /\ UNCHANGED <<configVars, fnVars, localVars, iterations, attempt, next_id, cancel_event,
                   api_requests, turns, max_conversation_tokens,
                   max_tool_iterations, sleeping, taken_over,
                   connectVars, storeVars, conn,
                   store>>

\* registry.dispatch ends: its result becomes a tool_result block; an
\* exception leaves process_message.
DispatchReturns ==
    /\ client_pc = "dispatching"
    /\ pc = "done"
    /\ PipelineReset
    /\ IF result.kind = "return"
       THEN /\ tool_results' = Append(tool_results, ToolResultBlock(Head(pending).id))
            /\ pending' = Tail(pending)
            /\ client_pc' = "tools"
            /\ sent' = <<"tool_result">>
            /\ UNCHANGED ending
       ELSE /\ EndMessage("raise")
            /\ UNCHANGED <<pending, tool_results, sent>>
    /\ UNCHANGED <<configVars, fnVars, localVars, messages, iterations, attempt, next_id,
                   cancel_event, api_requests, dispatches, turns,
                   max_conversation_tokens,
                   max_tool_iterations, sleeping, taken_over,
                   connectVars, storeVars, conn, store>>

\* Faulty variant: _process_with_cancel does not catch CancelledByUser, which
\* then ends the session like any other exception.
MessageEndsCancelUncaught ==
    /\ client_pc = "ended"
    /\ IF entry = "run"
       THEN /\ client_pc' = (IF ending = "raise" THEN "crashed" ELSE "input")
            /\ UNCHANGED <<messages, sent, store>>
       ELSE IF ending \in {"raise", "cancelled"}
       THEN SessionCleanup(conn)
       ELSE /\ sent' = (IF conn = "none" THEN <<>> ELSE <<"done">>)
            /\ store' = Saved(messages)
            /\ client_pc' = "input"
            /\ UNCHANGED messages
    /\ UNCHANGED <<configVars, pipelineVars, fnVars, localVars, iterations, attempt, pending,
                   tool_results, next_id, cancel_event, api_requests, dispatches,
                   ending, turns, max_conversation_tokens,
                   max_tool_iterations, sleeping, taken_over,
                   connectVars, storeVars, conn>>

\* What follows process_message.  run(): the loop asks for the next input, an
\* exception leaves run().  Daemon: _process_with_cancel sends "cancelled"
\* after CancelledByUser, the session is saved, "done" is sent and the loop
\* reads the next message; another exception ends the session.
MessageEnds ==
    /\ client_pc = "ended"
    /\ IF entry = "run"
       THEN /\ client_pc' = (IF ending = "raise" THEN "crashed" ELSE "input")
            /\ UNCHANGED <<messages, sent, store>>
       ELSE IF ending = "raise"
       THEN SessionCleanup(conn)
       ELSE /\ sent' = (IF conn = "none" THEN <<>>
                        ELSE IF ending = "cancelled" THEN <<"cancelled", "done">>
                        ELSE <<"done">>)
            /\ store' = Saved(messages)
            /\ client_pc' = "input"
            /\ UNCHANGED messages
    /\ UNCHANGED <<configVars, pipelineVars, fnVars, localVars, iterations, attempt, pending,
                   tool_results, next_id, cancel_event, api_requests, dispatches,
                   ending, turns, max_conversation_tokens,
                   max_tool_iterations, sleeping, taken_over,
                   connectVars, storeVars, conn>>

NextSession ==
    \/ ClientConnects
    \/ ClientCloses
    \/ ClientCancels
    \/ GetInput
    \/ RoundStart
    \/ ApiCancelled
    \/ ApiResponds
    \/ ApiRateLimited
    \/ BackoffEnds
    \/ ApiFails
    \/ ToolLoop
    \/ OperatorAnswers
    \/ ExecuteReturns
    \/ ExecuteRaises
    \/ ExecuteTimesOut
    \/ DispatchReturns
    \/ MessageEnds

SpecSession == InitSession /\ [][NextSession]_vars

---------------------------------------------------------------------------
(* agent/ui/daemon.py: connections to the socket (SpecConnect)             *)

\* Clients that connect to the socket in one run.
MaxPeers == 3

Peers == 1..MaxPeers

\* A client that has not connected yet.  pos is the position of its
\* _handle_connection call or what became of the connection, transport the
\* state of its end, closed whether the daemon closed its writer, events what
\* the handler wrote to it, probed the peer whose writer the handler probes,
\* stale whether it was stale when _cleanup_client closed it.
Away ==
    [pos |-> "away", transport |-> "alive", closed |-> FALSE, events |-> <<>>,
     probed |-> 0, stale |-> FALSE]

\* writer.is_closing() and reader.at_eof() of a peer.
IsClosing(q) == peers[q].closed \/ peers[q].transport = "lost"

AtEof(q) == peers[q].transport = "eof"

\* DaemonUI._cleanup_client(): the installed writer is closed, reader and
\* writer become None.
CleanupClient(how) ==
    IF installed = 0 THEN peers
    ELSE [peers EXCEPT ![installed].pos = how,
                       ![installed].closed = TRUE,
                       ![installed].stale = IsClosing(installed) \/ AtEof(installed)]

\* self._reader = reader; self._writer = writer
Install(ps, p) == [ps EXCEPT ![p].pos = "installed", ![p].probed = 0]

InitConnect ==
    /\ PipelineIdle
    /\ FnIdle
    /\ LocalIdle
    /\ SessionIdle
    /\ StoreIdle
    /\ installed = 0
    /\ peers = [p \in Peers |-> Away]
    /\ daemon = NoDaemon

\* _handle_connection up to its first await: with no client installed the
\* new one is installed; a client whose writer is closing or whose reader is
\* at EOF is cleaned up and replaced; otherwise the probe write begins.
HandleConnection(p) ==
    /\ peers[p].pos = "away"
    /\ IF installed = 0
       THEN /\ installed' = p
            /\ peers' = Install(peers, p)
       ELSE IF IsClosing(installed) \/ AtEof(installed)
       THEN /\ installed' = p
            /\ peers' = Install(CleanupClient("replaced"), p)
       ELSE /\ peers' = [peers EXCEPT ![p].pos = "probing", ![p].probed = installed]
            /\ UNCHANGED installed
    /\ UNCHANGED <<dispatchVars, fnVars, localVars, clientVars, storeVars, daemon>>

\* The await of the probe's drain() ends, by return or by ConnectionError
\* (only on a writer whose connection is lost).  After a return the handler
\* tests self._writer.is_closing() on the writer installed by then; with
\* none installed that raises AttributeError out of the handler.  A stale
\* client is cleaned up and replaced, otherwise the new one is sent
\* "error" and "done".
ProbeEnds(p) ==
    /\ peers[p].pos = "probing"
    /\ \E raised \in BOOLEAN :
           /\ raised => peers[peers[p].probed].transport = "lost"
           /\ IF ~raised /\ installed = 0
              THEN /\ peers' = [peers EXCEPT ![p].pos = "crashed", ![p].probed = 0]
                   /\ UNCHANGED installed
              ELSE IF raised \/ IsClosing(installed)
              THEN /\ installed' = p
                   /\ peers' = Install(CleanupClient("replaced"), p)
              ELSE /\ peers' = [peers EXCEPT ![p].pos = "rejecting",
                                             ![p].probed = 0,
                                             ![p].events = <<"error", "done">>]
                   /\ UNCHANGED installed
    /\ UNCHANGED <<dispatchVars, fnVars, localVars, clientVars, storeVars, daemon>>

\* The drain() after "error" and "done" ends; the handler closes the writer.
RejectEnds(p) ==
    /\ peers[p].pos = "rejecting"
    /\ peers' = [peers EXCEPT ![p].pos = "rejected", ![p].closed = TRUE]
    /\ UNCHANGED <<dispatchVars, fnVars, localVars, clientVars, storeVars, installed, daemon>>

\* A connected client closes its end.
PeerCloses(p) ==
    /\ peers[p].pos \in {"installed", "probing", "rejecting"}
    /\ peers[p].transport = "alive"
    /\ peers' = [peers EXCEPT ![p].transport = "eof"]
    /\ UNCHANGED <<dispatchVars, fnVars, localVars, clientVars, storeVars, installed, daemon>>

\* The connection of a connected client is lost.
PeerLost(p) ==
    /\ peers[p].pos \in {"installed", "probing", "rejecting"}
    /\ peers[p].transport # "lost"
    /\ peers' = [peers EXCEPT ![p].transport = "lost"]
    /\ UNCHANGED <<dispatchVars, fnVars, localVars, clientVars, storeVars, installed, daemon>>

\* get_input() of the session loop reads EOF: _cleanup_client().
GetInputEof ==
    /\ installed # 0
    /\ peers[installed].transport # "alive"
    /\ peers' = CleanupClient("cleaned")
    /\ installed' = 0
    /\ UNCHANGED <<dispatchVars, fnVars, localVars, clientVars, storeVars, daemon>>

NextConnect ==
    \/ \E p \in Peers : HandleConnection(p)
    \/ \E p \in Peers : ProbeEnds(p)
    \/ \E p \in Peers : RejectEnds(p)
    \/ \E p \in Peers : PeerCloses(p)
    \/ \E p \in Peers : PeerLost(p)
    \/ GetInputEof

SpecConnect == InitConnect /\ [][NextConnect]_vars

---------------------------------------------------------------------------
(* The session store (specifications SpecStore and SpecRoundTrip)         *)

\* A Python object json cannot serialise; v is the text str() gives for it.
Object(text) == [t |-> "object", v |-> text]

\* json.dump(obj, f, default=str): the JSON text as a tree.  A tuple is
\* written as an array, and an object json does not know is replaced by
\* default(obj) = str(obj).
RECURSIVE JsonDump(_)
JsonDump(obj) ==
    IF obj.t = "str" THEN [j |-> "string", v |-> obj.v]
    ELSE IF obj.t = "other" THEN [j |-> "literal", v |-> obj.v]
    ELSE IF obj.t \in {"list", "tuple"} THEN
        [j |-> "array", v |-> [i \in 1..Len(obj.v) |-> JsonDump(obj.v[i])]]
    ELSE IF obj.t = "dict" THEN
        [j |-> "object",
         v |-> [i \in 1..Len(obj.v) |-> <<obj.v[i][1], JsonDump(obj.v[i][2])>>]]
    ELSE [j |-> "string", v |-> obj.v]

\* json.load(f): an array is read as a list, an object as a dict.
RECURSIVE JsonLoad(_)
JsonLoad(json) ==
    IF json.j = "string" THEN Str(json.v)
    ELSE IF json.j = "literal" THEN Other(json.v)
    ELSE IF json.j = "array" THEN
        List([i \in 1..Len(json.v) |-> JsonLoad(json.v[i])])
    ELSE Dict([i \in 1..Len(json.v) |-> <<json.v[i][1], JsonLoad(json.v[i][2])>>])

\* Python's truth value of an optional number: None and 0 are false.
Truthy(opt) == opt # <<>> /\ opt[1] # 0

\* SessionStore.save(session_id, messages, created_at=created_at) at time
\* now: the directory it leaves.  The file holds created_at, updated_at and
\* the messages (turns and preview, which load() does not read, are left
\* out); a finite float is written and read back exactly.
Save(dir, session_id, msgs, created_at, now) ==
    (session_id :> [created_at |-> IF Truthy(created_at) THEN created_at[1] ELSE now,
                    updated_at |-> now,
                    messages |-> JsonDump(List(msgs))])
    @@ dir

\* SessionStore.load(session_id) of an existing file: (messages, created_at).
Load(dir, session_id) ==
    <<JsonLoad(dir[session_id].messages).v, dir[session_id].created_at>>

\* --- the daemon's session loop and the store ------------------------------

MaxSessionIds == 2
MaxClock == 3
MaxSaved == 2
MaxFrames == 3

SessionIds == 1..MaxSessionIds

UserDict == Dict(<<(<<"role", Str("user")>>), (<<"content", Str("check disk")>>)>>)

AssistantDict ==
    Dict(<<(<<"role", Str("assistant")>>),
           (<<"content", List(<<Dict(<<(<<"type", Str("text")>>),
                                       (<<"text", Str("ok")>>)>>)>>)>>)>>)

InitStore ==
    /\ PipelineIdle
    /\ FnIdle
    /\ LocalIdle
    /\ SessionIdle
    /\ ConnectIdle
    /\ files = <<>>
    /\ clock = 1
    /\ session = [NoSession EXCEPT !.pc = "waiting"]

\* time.time() moves on.
Tick ==
    /\ clock < MaxClock
    /\ clock' = clock + 1
    /\ UNCHANGED <<dispatchVars, fnVars, localVars, clientVars, connectVars, files, session>>

ResumedInfo(sid, n) == [type |-> "info", text |-> <<"Resumed session", sid, n>>]
NotFoundError(sid) == [type |-> "error", text |-> <<"Session not found", sid>>]

\* The `resume` field a frame can carry: none, or a session id.
ResumeFields == {<<>>} \cup {<<sid>> : sid \in SessionIds}

\* A client connects and sends its first frame: the loop makes a new
\* session id with created_at = None, and if the frame asks to resume a
\* session whose file exists it takes that session's id, messages and
\* created_at instead (FileNotFoundError keeps the new session).
SessionStarts(resume) ==
    /\ session.pc = "waiting"
    /\ \E new_id \in SessionIds \ DOMAIN files :
           /\ resume # <<new_id>>
           /\ session' =
                  IF resume # <<>> /\ resume[1] \in DOMAIN files
                  THEN [pc |-> "processing", session_id |-> resume[1],
                        created_at |-> <<Load(files, resume[1])[2]>>,
                        messages |-> Load(files, resume[1])[1],
                        frames |-> 1, last_metadata |-> resume,
                        events |-> <<ResumedInfo(resume[1],
                                                 Len(Load(files, resume[1])[1]))>>]
                  ELSE [pc |-> "processing", session_id |-> new_id,
                        created_at |-> <<>>, messages |-> <<>>,
                        frames |-> 1, last_metadata |-> resume,
                        events |-> IF resume # <<>>
                                   THEN <<NotFoundError(resume[1])>> ELSE <<>>]
    /\ UNCHANGED <<dispatchVars, fnVars, localVars, clientVars, connectVars, files, clock>>

\* get_input() in the inner loop reads the next frame of whatever
\* connection is installed; nothing reads its `resume`.
FrameRead(resume) ==
    /\ session.pc = "open"
    /\ session.frames < MaxFrames
    /\ session' = [session EXCEPT !.pc = "processing", !.frames = @ + 1,
                                  !.last_metadata = resume, !.events = <<>>]
    /\ UNCHANGED <<dispatchVars, fnVars, localVars, clientVars, connectVars, files, clock>>

\* While the message is processed the client goes away and
\* _handle_connection installs the next client in its place: no frame of
\* the new connection has been read.
ConnectionReplaced ==
    /\ session.pc = "processing"
    /\ session.frames > 0
    /\ session' = [session EXCEPT !.frames = 0]
    /\ UNCHANGED <<dispatchVars, fnVars, localVars, clientVars, connectVars, files, clock>>

\* The message has been processed (answered, or cancelled or failed with
\* the history as it was) and the session is saved.
MessageSaved(answered) ==
    /\ session.pc = "processing"
    /\ answered => Len(session.messages) < 2 * MaxSaved
    /\ LET msgs == IF answered THEN session.messages \o <<UserDict, AssistantDict>>
                   ELSE session.messages
       IN /\ session' = [session EXCEPT !.pc = "open", !.messages = msgs]
          /\ files' = Save(files, session.session_id, msgs, session.created_at, clock)
    /\ UNCHANGED <<dispatchVars, fnVars, localVars, clientVars, connectVars, clock>>

\* The finally clause: a non-empty history is saved; client.reset().
SessionCloses ==
    /\ session.pc = "open"
    /\ files' = (IF session.messages # <<>>
                 THEN Save(files, session.session_id, session.messages,
                           session.created_at, clock)
                 ELSE files)
    /\ session' = [NoSession EXCEPT !.pc = "waiting"]
    /\ UNCHANGED <<dispatchVars, fnVars, localVars, clientVars, connectVars, clock>>

NextStore ==
    \/ Tick
    \/ \E resume \in ResumeFields : SessionStarts(resume)
    \/ \E resume \in ResumeFields : FrameRead(resume)
    \/ ConnectionReplaced
    \/ \E answered \in BOOLEAN : MessageSaved(answered)
    \/ SessionCloses

SpecStore == InitStore /\ [][NextStore]_vars

\* --- save() then load() ---------------------------------------------------

\* Message lists: what the client keeps, and values the type
\* list[dict[str, Any]] also admits (a tuple, an object json cannot write).
RoundTripMessages ==
    {UserDict, AssistantDict,
     Dict(<<(<<"role", Str("user")>>), (<<"content", Tuple(<<Str("a"), Other(1)>>)>>)>>),
     Dict(<<(<<"role", Str("user")>>), (<<"content", Object("<obj>")>>)>>)}

RoundTripHistories ==
    UNION {[1..n -> RoundTripMessages] : n \in 0..MaxSaved}

InitRoundTrip ==
    /\ DispatchIdle
    /\ fn = "save_load"
    /\ fn_arg \in [session_id : SessionIds, messages : RoundTripHistories,
                   created_at : 0..MaxClock, now : 1..MaxClock,
                   saved_before : BOOLEAN]
    /\ fn_perm = NoPermissions
    /\ fn_out = NotCalled

\* store.save(sid, msgs, created_at=t); store.load(sid), on an empty
\* directory or over an earlier file of the same session.
ApplySaveLoad ==
    /\ fn = "save_load"
    /\ ~fn_out.called
    /\ LET before == IF fn_arg.saved_before
                     THEN Save(<<>>, fn_arg.session_id, <<UserDict>>, <<>>, 1)
                     ELSE <<>>
           after == Save(before, fn_arg.session_id, fn_arg.messages,
                         <<fn_arg.created_at>>, fn_arg.now)
       IN fn_out' = CalledWith(Load(after, fn_arg.session_id))
    /\ UNCHANGED <<dispatchVars, fn, fn_arg, fn_perm, localVars, clientVars,
                   connectVars, storeVars>>

SpecRoundTrip == InitRoundTrip /\ [][ApplySaveLoad]_vars

---------------------------------------------------------------------------
(* The steps of one save (specification SpecSave)                         *)

\* json.dump writes the document in this many pieces; a file is complete
\* when it holds them all.
Chunks == 2
MaxSaves == 3

JsonName(sid) == <<sid, "json">>
TmpName(sid) == <<sid, "tmp">>

\* The content of a file: the save that wrote it and how much of it.
Content(version, written) == [version |-> version, written |-> written]
Complete(content) == content.written = Chunks

\* What is under a name when a save begins: <<>> if there is no file.
FileAt(dir, name) == IF name \in DOMAIN dir THEN <<dir[name]>> ELSE <<>>

Remove(dir, name) == [n \in DOMAIN dir \ {name} |-> dir[n]]

\* The save in progress (pc: idle, writing, written, crashed), the number of
\* saves begun, what <sid>.json was when the save began, and what load and
\* list_sessions have read.
NoSave ==
    [pc |-> "idle", session_id |-> 0, version |-> 0, previous |-> <<>>, observed |-> {}]

InitSave ==
    /\ PipelineIdle
    /\ FnIdle
    /\ LocalIdle
    /\ SessionIdle
    /\ ConnectIdle
    /\ files = <<>>
    /\ clock = 1
    /\ session = NoSave

\* A save that opens <sid>.json itself for writing.
SaveOpensInPlace(sid) ==
    /\ session.pc = "idle"
    /\ session.version < MaxSaves
    /\ session' = [session EXCEPT !.pc = "writing", !.session_id = sid,
                                  !.version = @ + 1,
                                  !.previous = FileAt(files, JsonName(sid))]
    /\ files' = (JsonName(sid) :> Content(session.version + 1, 0)) @@ files
    /\ UNCHANGED <<dispatchVars, fnVars, localVars, clientVars, connectVars, clock>>

\* save(): open(tmp, "w") creates or truncates <sid>.tmp.
SaveOpens(sid) ==
    /\ session.pc = "idle"
    /\ session.version < MaxSaves
    /\ session' = [session EXCEPT !.pc = "writing", !.session_id = sid,
                                  !.version = @ + 1,
                                  !.previous = FileAt(files, JsonName(sid))]
    /\ files' = (TmpName(sid) :> Content(session.version + 1, 0)) @@ files
    /\ UNCHANGED <<dispatchVars, fnVars, localVars, clientVars, connectVars, clock>>

\* The file the save in progress writes to: the one it opened.
OpenFile ==
    CHOOSE n \in DOMAIN files :
        n[1] = session.session_id /\ files[n].version = session.version

\* json.dump(data, f, default=str) writes one more piece; the with block
\* closes the file after the last.
SaveWrites ==
    /\ session.pc = "writing"
    /\ files' = [files EXCEPT ![OpenFile].written = @ + 1]
    /\ session' = [session EXCEPT
                       !.pc = IF files[OpenFile].written + 1 = Chunks
                              THEN "written" ELSE "writing"]
    /\ UNCHANGED <<dispatchVars, fnVars, localVars, clientVars, connectVars, clock>>

\* json.dump raises before the document is written (a key json cannot
\* write, a full disk): the with block closes the file, save() raises and
\* the rename is not reached.
SaveRaises ==
    /\ session.pc = "writing"
    /\ session' = [session EXCEPT !.pc = "idle"]
    /\ UNCHANGED <<dispatchVars, fnVars, localVars, clientVars, connectVars, files, clock>>

\* tmp.rename(path): <sid>.json becomes what <sid>.tmp was, in one step.
SaveRenames ==
    /\ session.pc = "written"
    /\ files' = IF TmpName(session.session_id) \in DOMAIN files
                THEN (JsonName(session.session_id) :> files[TmpName(session.session_id)])
                     @@ Remove(files, TmpName(session.session_id))
                ELSE files
    /\ session' = [session EXCEPT !.pc = "idle"]
    /\ UNCHANGED <<dispatchVars, fnVars, localVars, clientVars, connectVars, clock>>

\* The process dies at any step of a save; what is on disk stays.
SaveCrashes ==
    /\ session.pc \in {"writing", "written"}
    /\ session' = [session EXCEPT !.pc = "crashed"]
    /\ UNCHANGED <<dispatchVars, fnVars, localVars, clientVars, connectVars, files, clock>>

\* The daemon is started again.
Restarts ==
    /\ session.pc = "crashed"
    /\ session' = [session EXCEPT !.pc = "idle"]
    /\ UNCHANGED <<dispatchVars, fnVars, localVars, clientVars, connectVars, files, clock>>

\* load(sid), at any moment (the daemon itself, or `bastion sessions` run
\* from another process): it reads <sid>.json.
LoadReads(sid) ==
    /\ JsonName(sid) \in DOMAIN files
    /\ session' = [session EXCEPT !.observed = @ \cup {files[JsonName(sid)]}]
    /\ UNCHANGED <<dispatchVars, fnVars, localVars, clientVars, connectVars, files, clock>>

\* list_sessions(), at any moment: it reads every file matching *.json.
ListSessions ==
    /\ \E n \in DOMAIN files : n[2] = "json"
    /\ session' = [session EXCEPT
                       !.observed = @ \cup {files[n] : n \in {m \in DOMAIN files : m[2] = "json"}}]
    /\ UNCHANGED <<dispatchVars, fnVars, localVars, clientVars, connectVars, files, clock>>

NextSave ==
    \/ \E sid \in SessionIds : SaveOpens(sid)
    \/ SaveWrites
    \/ SaveRaises
    \/ SaveRenames
    \/ SaveCrashes
    \/ Restarts
    \/ \E sid \in SessionIds : LoadReads(sid)
    \/ ListSessions

SpecSave == InitSave /\ [][NextSave]_vars

---------------------------------------------------------------------------
(* Shutdown of the daemon (specifications SpecStop and SpecStopFair)      *)

MaxSignals == 2
MaxConnections == 2

\* The daemon after ui.start(), with the session loop in its first
\* wait_for_client(): loop is the position of the session loop (waiting,
\* input, processing, stopping, unlinking, exited), peer the client's end
\* of the installed connection, stops the ui.stop() tasks of the signal
\* handler that await wait_closed(), stopped_in where the loop was at the
\* first signal.
Started ==
    [loop |-> "waiting", shutdown |-> FALSE, client_connected |-> FALSE,
     reader |-> FALSE, peer |-> "none", server |-> "listening", socket |-> TRUE,
     stops |-> 0, signals |-> 0, connections |-> 0, stopped_in |-> "none"]

InitStop ==
    /\ PipelineIdle
    /\ FnIdle
    /\ LocalIdle
    /\ SessionIdle
    /\ StoreIdle
    /\ installed = 0
    /\ peers = <<>>
    /\ daemon = Started

StopUnchanged == UNCHANGED <<dispatchVars, fnVars, localVars, clientVars, storeVars, installed, peers>>

\* DaemonUI.stop() up to its await: both events are set, the client is
\* cleaned up, the server is closed.
StopBody(d) ==
    [d EXCEPT !.shutdown = TRUE, !.client_connected = TRUE, !.reader = FALSE,
              !.server = "closed"]

\* A client connects while the server listens and no client is installed:
\* _handle_connection installs it and sets _client_connected.
ClientArrives ==
    /\ daemon.server = "listening"
    /\ ~daemon.reader
    /\ daemon.connections < MaxConnections
    /\ daemon' = [daemon EXCEPT !.reader = TRUE, !.peer = "alive",
                                !.client_connected = TRUE,
                                !.connections = @ + 1]
    /\ StopUnchanged

\* The client closes its end.
ClientLeaves ==
    /\ daemon.peer = "alive"
    /\ daemon' = [daemon EXCEPT !.peer = "closed"]
    /\ StopUnchanged

\* wait_for_client(): the wait on _client_connected ends; it returns
\* `not self._shutdown.is_set()`.  False breaks the loop, which goes on to
\* its own `await ui.stop()`.
WaitReturns ==
    /\ daemon.loop = "waiting"
    /\ daemon.client_connected
    /\ daemon' = [daemon EXCEPT !.loop = IF daemon.shutdown THEN "stopping" ELSE "input"]
    /\ StopUnchanged

\* get_input() returns a message: _process_with_cancel begins.
InputReturnsMessage ==
    /\ daemon.loop = "input"
    /\ daemon.reader
    /\ daemon.peer = "alive"
    /\ daemon' = [daemon EXCEPT !.loop = "processing"]
    /\ StopUnchanged

\* process_message ends (by return or cancelled); save, done, next get_input.
ProcessingEnds ==
    /\ daemon.loop = "processing"
    /\ daemon' = [daemon EXCEPT !.loop = "input"]
    /\ StopUnchanged

\* get_input() returns None (no reader, or EOF on it): the finally clause
\* runs and the loop calls wait_for_client() again, which begins with
\* self._client_connected.clear().
InputReturnsNone ==
    /\ daemon.loop = "input"
    /\ ~daemon.reader \/ daemon.peer # "alive"
    /\ daemon' = [daemon EXCEPT !.loop = "waiting", !.reader = FALSE,
                                !.peer = "none", !.client_connected = FALSE]
    /\ StopUnchanged

\* SIGTERM or SIGINT: the handler starts ui.stop() as a task, which runs to
\* its `await self._server.wait_closed()`.
Signal ==
    /\ daemon.signals < MaxSignals
    /\ daemon.loop \notin {"exited"}
    /\ daemon' = [StopBody(daemon) EXCEPT
                      !.signals = @ + 1, !.stops = @ + 1,
                      !.peer = IF daemon.reader THEN "closed" ELSE @,
                      !.stopped_in = IF daemon.signals = 0 THEN daemon.loop ELSE @]
    /\ StopUnchanged

\* A ui.stop() task resumes after wait_closed() and unlinks the socket file.
StopTaskEnds ==
    /\ daemon.stops > 0
    /\ daemon' = [daemon EXCEPT !.stops = @ - 1, !.socket = FALSE]
    /\ StopUnchanged

\* The `await ui.stop()` after the loop, up to wait_closed().
LoopStops ==
    /\ daemon.loop = "stopping"
    /\ daemon' = [StopBody(daemon) EXCEPT !.loop = "unlinking"]
    /\ StopUnchanged

\* ... and from there to the end of _run_daemon.
LoopExits ==
    /\ daemon.loop = "unlinking"
    /\ daemon' = [daemon EXCEPT !.loop = "exited", !.socket = FALSE]
    /\ StopUnchanged

LoopNext ==
    \/ WaitReturns
    \/ ProcessingEnds
    \/ InputReturnsNone
    \/ StopTaskEnds
    \/ LoopStops
    \/ LoopExits

NextStop ==
    \/ ClientArrives
    \/ ClientLeaves
    \/ InputReturnsMessage
    \/ Signal
    \/ LoopNext

SpecStop == InitStop /\ [][NextStop]_vars

\* The event loop runs every task that can run; clients and signals come as
\* they please.
SpecStopFair == SpecStop /\ WF_vars(LoopNext)

---------------------------------------------------------------------------
(* A local command under the dispatch timeout (specification SpecLocal)   *)

MaxTimeout == 4

\* Commands by what becomes of them in execute.
LocalCommands ==
    {"unbalanced quote", "empty", "no such program", "not executable", "sleep", "uptime"}

\* dispatch has called asyncio.wait_for(tool.execute(command=...), timeout):
\* pc is the position of execute (called, spawning, communicating, returned,
\* cancelled), proc the child process (none, running, exited, killed),
\* outcome what dispatch returned (none, result, timeout).
InitLocal ==
    /\ PipelineIdle
    /\ FnIdle
    /\ SessionIdle
    /\ ConnectIdle
    /\ StoreIdle
    /\ child \in [pc : {"called"}, command : LocalCommands, timeout : 1..MaxTimeout,
                  elapsed : {0}, proc : {"none"}, outcome : {"none"}]
    /\ send = NoSend

LocalUnchanged ==
    UNCHANGED <<dispatchVars, fnVars, clientVars, connectVars, storeVars, send>>

\* execute up to its first await: shlex.split, the empty command, and the
\* fork of create_subprocess_exec, whose FileNotFoundError and
\* PermissionError become a ToolResult.
ExecuteStarts ==
    /\ child.pc = "called"
    /\ child' = IF child.command \in {"sleep", "uptime"}
                THEN [child EXCEPT !.pc = "spawning", !.proc = "running"]
                ELSE [child EXCEPT !.pc = "returned", !.outcome = "result"]
    /\ LocalUnchanged

\* create_subprocess_exec returns the process; execute awaits
\* proc.communicate().
SpawnReturns ==
    /\ child.pc = "spawning"
    /\ child' = [child EXCEPT !.pc = "communicating"]
    /\ LocalUnchanged

\* Time passes while execute is suspended.
TimePasses ==
    /\ child.pc \in {"spawning", "communicating"}
    /\ child.elapsed < child.timeout
    /\ child' = [child EXCEPT !.elapsed = @ + 1]
    /\ LocalUnchanged

\* The child process ends by itself.
ProcExits ==
    /\ child.proc = "running"
    /\ child' = [child EXCEPT !.proc = "exited"]
    /\ LocalUnchanged

\* communicate() returns after the child has exited; execute returns its
\* ToolResult and dispatch the result.
CommunicateReturns ==
    /\ child.pc = "communicating"
    /\ child.proc = "exited"
    /\ child' = [child EXCEPT !.pc = "returned", !.outcome = "result"]
    /\ LocalUnchanged

\* The deadline of wait_for passes: execute is cancelled at its await and
\* dispatch returns the timeout error.  Cancelled inside
\* create_subprocess_exec, asyncio closes the transport, which kills the
\* child, and waits for it; cancelled inside communicate(), execute has no
\* handler and nothing touches the child.
WaitForTimesOut ==
    /\ child.pc \in {"spawning", "communicating"}
    /\ child.elapsed = child.timeout
    /\ child' = [child EXCEPT !.pc = "cancelled", !.outcome = "timeout",
                              !.proc = IF child.pc = "spawning" THEN "killed" ELSE @]
    /\ LocalUnchanged

NextLocal ==
    \/ ExecuteStarts
    \/ SpawnReturns
    \/ TimePasses
    \/ ProcExits
    \/ CommunicateReturns
    \/ WaitForTimesOut

SpecLocal == InitLocal /\ [][NextLocal]_vars

---------------------------------------------------------------------------
(* An interactive `bastion send` session (specification SpecSend)         *)
(* agent/main.py: _send_message and the session loop; agent/ui/daemon.py  *)

MaxMessages == 3

\* A line the client writes: a message, "/quit", a cancel, or the end of the
\* stream; k is the number of the client's message it belongs to.
Frame(type, k) == [type |-> type, k |-> k]

\* A line the daemon writes, and the message it was written for.
Event(type, k) == [type |-> type, k |-> k]

\* The event types that end _read_events.
ReadEnds == {"cancelled", "done", "goodbye"}

\* Where the session loop is suspended at an await, so that the event loop
\* runs its other callbacks: readline of get_input, process_message, a
\* drain that waits, wait_for_client.
YieldPoints == {"input", "processing", "flush", "ended"}

\* The message the daemon's events are written for: the latest it read
\* (the banner goes with the first).
Tag(s) == IF s.cur = 0 THEN 1 ELSE s.cur

\* _send_event: a line for the client, unless the writer is gone.
Emit(s, types) ==
    IF s.open
    THEN [s EXCEPT !.down = @ \o [j \in 1..Len(types) |-> Event(types[j], Tag(s))]]
    ELSE s

\* wait_for_client has returned and display_banner has run; the client has
\* opened the connection and, when a message was given on the command
\* line, sent it and started _read_events.
InitSend ==
    /\ PipelineIdle
    /\ FnIdle
    /\ SessionIdle
    /\ ConnectIdle
    /\ StoreIdle
    /\ child = NoChild
    /\ \E given \in BOOLEAN :
        send = [NoSend EXCEPT
                   !.first_given = given,
                   !.cpc = IF given THEN "reading" ELSE "prompt",
                   !.sent = IF given THEN 1 ELSE 0,
                   !.wire = IF given THEN <<Frame("message", 1)>> ELSE <<>>,
                   !.down = <<Event("banner", 1)>>,
                   !.dpc = "call_input",
                   !.open = TRUE]

SendUnchanged ==
    UNCHANGED <<dispatchVars, fnVars, clientVars, connectVars, storeVars, child>>

\* The client process ends: its socket is closed.
ClientClosed(s) == [s EXCEPT !.cpc = "closed", !.wire = Append(@, Frame("eof", s.sent))]

\* The interactive loop of _send_message: a line typed at the prompt is
\* sent and _read_events is started.
ClientSends(text) ==
    /\ send.cpc = "prompt"
    /\ send.sent < MaxMessages
    /\ send' = [send EXCEPT
                   !.sent = @ + 1,
                   !.interrupted = FALSE,
                   !.cancel_sent = FALSE,
                   !.quitting = text = "quit",
                   !.wire = Append(@, Frame(text, send.sent + 1)),
                   !.cpc = "reading"]
    /\ SendUnchanged

\* EOFError at the prompt: the loop breaks.
ClientEnds ==
    /\ send.cpc = "prompt"
    /\ send' = ClientClosed(send)
    /\ SendUnchanged

\* _on_sigint: the first Ctrl-C sends a cancel (once), the second closes
\* the writer.
ClientSigint ==
    /\ send.cpc \in {"prompt", "reading"}
    /\ send' =
         IF send.interrupted
         THEN ClientClosed(send)
         ELSE [send EXCEPT
                  !.interrupted = TRUE,
                  !.cancel_sent = TRUE,
                  !.cancels = IF send.cancel_sent THEN @ ELSE @ + 1,
                  !.wire = IF send.cancel_sent THEN @
                           ELSE Append(@, Frame("cancel", send.sent))]
    /\ SendUnchanged

\* What follows a return of _read_events: the prompt, or the end after
\* "/quit" and after an interrupted command-line message.
AfterRead(s) ==
    IF s.quitting \/ (s.first_given /\ s.sent = 1 /\ s.interrupted)
    THEN ClientClosed(s)
    ELSE [s EXCEPT !.cpc = "prompt"]

\* One iteration of _read_events: a line is read; the end of the stream and
\* the terminal events return.
ClientReads ==
    /\ send.cpc = "reading"
    /\ send.down # <<>>
    /\ LET event == Head(send.down)
           taken == [send EXCEPT
                        !.down = Tail(@),
                        !.consumed = <<[type |-> event.type, k |-> event.k,
                                        by |-> send.sent]>>]
       IN send' = IF event.type = "eof" THEN ClientClosed(send)
                  ELSE IF event.type \in ReadEnds THEN AfterRead(taken)
                  ELSE taken
    /\ SendUnchanged

\* The event loop feeds a line of the socket to the StreamReader.
DataReceived ==
    /\ send.dpc \in YieldPoints
    /\ send.open
    /\ send.wire # <<>>
    /\ send' = [send EXCEPT !.buffer = Append(@, Head(send.wire)), !.wire = Tail(@)]
    /\ SendUnchanged

\* The finally block of the session: "Session saved" when there is a
\* history, goodbye; the loop goes back to wait_for_client.
SessionFinally(s, has_messages) ==
    [Emit(s, IF has_messages THEN <<"info", "goodbye">> ELSE <<"goodbye">>)
        EXCEPT !.dpc = "ended"]

\* _cleanup_client: the cancel event is set, the monitor stopped, reader and
\* writer dropped and the writer closed.
CleanupSendClient(s) ==
    [s EXCEPT !.cancelled = TRUE,
              !.monitor = IF @ = "waiting" THEN "cancelling" ELSE @,
              !.open = FALSE,
              !.down = IF s.open THEN Append(@, Event("eof", Tag(s))) ELSE @]

HasMessages(s) == IF s.processed THEN BOOLEAN ELSE {FALSE}

\* get_input has a line, and the session loop acts on what it returns: None
\* at the end of the stream, "" for a frame without a message (a cancel),
\* "/quit", or a message, for which start_processing starts the monitor.
Received(s, has_messages) ==
    LET frame == Head(s.buffer) IN
    CASE frame.type = "eof" ->
            SessionFinally(CleanupSendClient(s), has_messages)
      [] frame.type = "cancel" ->
            [s EXCEPT !.buffer = Tail(@), !.dpc = "call_input"]
      [] frame.type = "quit" ->
            SessionFinally(Emit([s EXCEPT !.buffer = Tail(@), !.cur = frame.k],
                                <<"goodbye">>), has_messages)
      [] OTHER ->
            [s EXCEPT !.buffer = Tail(@),
                      !.cur = frame.k,
                      !.cancelled = FALSE,
                      !.monitor = "waiting",
                      !.responded = FALSE,
                      !.dpc = "processing"]

\* The session loop calls get_input, whose readline returns a buffered
\* line at once; with an empty buffer it waits for data, and
\* StreamReader raises RuntimeError when another coroutine is still
\* registered as waiting, which ends the session in `except Exception`.
GetInputCalled ==
    /\ send.dpc = "call_input"
    /\ \E has_messages \in HasMessages(send) :
        send' = IF send.buffer # <<>> THEN Received(send, has_messages)
                ELSE IF send.monitor # "none"
                THEN SessionFinally([send EXCEPT !.raised = "RuntimeError"],
                                    has_messages)
                ELSE [send EXCEPT !.dpc = "input"]
    /\ SendUnchanged

\* The readline of get_input is woken by a line.
GetInputWakes ==
    /\ send.dpc = "input"
    /\ send.buffer # <<>>
    /\ \E has_messages \in HasMessages(send) :
        send' = Received(send, has_messages)
    /\ SendUnchanged

\* process_message shows a response.
ProcessResponds ==
    /\ send.dpc = "processing"
    /\ ~send.responded
    /\ send' = [Emit(send, <<"response">>) EXCEPT !.responded = TRUE]
    /\ SendUnchanged

\* stop_processing: cancellation of the monitor is requested; the task
\* stays registered with the reader until the event loop runs it.
StopProcessing(s) == [s EXCEPT !.monitor = IF @ = "waiting" THEN "cancelling" ELSE @]

\* _process_with_cancel ends: process_message returned, or raised
\* CancelledByUser (the cancel event is set) and display_cancelled ran;
\* stop_processing; then save, display_done and flush, whose drain returns
\* at once unless the transport is paused, in which case the event loop
\* runs and the monitor is cancelled.
MessageProcessed(how, drain_waits) ==
    /\ send.dpc = "processing"
    /\ how = "cancelled" => send.cancelled
    /\ LET stopped == StopProcessing([send EXCEPT !.processed = TRUE])
           shown == Emit(stopped, IF how = "cancelled" THEN <<"cancelled", "done">>
                                  ELSE <<"done">>)
       IN send' = IF drain_waits
                  THEN [shown EXCEPT !.monitor = "none", !.dpc = "flush"]
                  ELSE [shown EXCEPT !.dpc = "call_input"]
    /\ SendUnchanged

\* process_message raises another exception: stop_processing, then the
\* `except Exception` and the finally block of the session.
ProcessRaises ==
    /\ send.dpc = "processing"
    /\ \E has_messages \in BOOLEAN :
        send' = SessionFinally(StopProcessing([send EXCEPT !.processed = TRUE,
                                                           !.raised = "process_message"]),
                               has_messages)
    /\ SendUnchanged

\* The drain of flush returns.
FlushReturns ==
    /\ send.dpc = "flush"
    /\ send' = [send EXCEPT !.dpc = "call_input"]
    /\ SendUnchanged

\* One iteration of _monitor_client: the end of the stream and a cancel set
\* the cancel event and end the task; any other line is read and dropped.
MonitorReads ==
    /\ send.monitor = "waiting"
    /\ send.dpc \in YieldPoints
    /\ send.buffer # <<>>
    /\ LET frame == Head(send.buffer) IN
       send' = CASE frame.type = "eof" ->
                       [send EXCEPT !.cancelled = TRUE, !.monitor = "none"]
                 [] frame.type = "cancel" ->
                       [send EXCEPT !.buffer = Tail(@), !.cancelled = TRUE,
                                    !.monitor = "none"]
                 [] OTHER ->
                       [send EXCEPT !.buffer = Tail(@), !.dropped = @ + 1]
    /\ SendUnchanged

\* The event loop runs the cancelled monitor task: CancelledError at its
\* readline.
MonitorCancelled ==
    /\ send.monitor = "cancelling"
    /\ send.dpc \in YieldPoints
    /\ send' = [send EXCEPT !.monitor = "none"]
    /\ SendUnchanged

NextSend ==
    \/ \E text \in {"message", "quit"} : ClientSends(text)
    \/ ClientEnds
    \/ ClientSigint
    \/ ClientReads
    \/ DataReceived
    \/ GetInputCalled
    \/ GetInputWakes
    \/ ProcessResponds
    \/ \E how \in {"completed", "cancelled"}, drain_waits \in BOOLEAN :
          MessageProcessed(how, drain_waits)
    \/ ProcessRaises
    \/ FlushReturns
    \/ MonitorReads
    \/ MonitorCancelled

SpecSend == InitSend /\ [][NextSend]_vars

---------------------------------------------------------------------------
(* Properties of the dispatch pipeline (specification Spec)                *)

Range(seq) == {seq[i] : i \in 1..Len(seq)}

IsPrefix(s, t) == Len(s) <= Len(t) /\ SubSeq(t, 1, Len(s)) = s

\* The six stages (and the lookup before them) in pipeline order.
StageOrder ==
    <<"lookup", "sanitize", "attempt", "allowlist", "approval", "execute", "result">>

StagesUpTo(stage) ==
    SubSeq(StageOrder, 1, CHOOSE i \in 1..Len(StageOrder) : StageOrder[i] = stage)

\* The dispatch has ended by returning {"error": text}, "stage" being the
\* last stage it ran.
EndedWith(stage, text) ==
    /\ pc = "done"
    /\ result = Returned(ErrorDict(text))
    /\ stages = StagesUpTo(stage)

TerminalEvents == {"tool_denied", "tool_timeout", "tool_error", "tool_success"}

\* C1: tool.execute is invoked only if the tool is registered, sanitize
\* accepted the input, the allowlist check raised nothing, and the approval
\* gate either was not required or was granted; an unknown tool, a
\* SanitizationError, an AllowlistDenied and an operator denial each end the
\* call with an {error: ...} mapping at that stage, no later stage having run.
C1_ExecuteOnlyAfterAllGates ==
    pc # "idle" =>
        LET registered == tool_name \in RegisteredTools
            san == Sanitize(tool_name, tool_input)
            allow == CheckAllowlist(tool_name, servers, tool_input)
            needs == RequiresApproval(tool_name, ToolInput(tool_input), GetApprovalPatterns)
        IN /\ IsPrefix(stages, StageOrder)
           /\ ("execute" \in Range(stages) \/ effects # NoEffect) =>
                  /\ registered
                  /\ san.ok
                  /\ allow.outcome = "ok"
                  /\ \/ ~needs /\ approval = "not_required"
                     \/ needs /\ approval = "granted"
           /\ ~registered => EndedWith("lookup", "Unknown tool")
           /\ (registered /\ ~san.ok) => EndedWith("sanitize", "Input rejected")
           /\ (registered /\ san.ok /\ allow.outcome = "AllowlistDenied") =>
                  EndedWith("allowlist", "Operation not permitted by security policy")
           /\ approval = "denied" =>
                  EndedWith("approval", "Operation denied by operator")

\* C1 witness: a call that passed every gate, the operator having approved
\* it, executed and returned.
C1_Witness ==
    /\ pc = "done"
    /\ stages = StageOrder
    /\ approval = "granted"
    /\ checks # <<>>
    /\ effects # NoEffect

\* C2: a dispatch that logged tool_attempt logs exactly one terminal event
\* after it before it ends, and none before it.
C2_OneTerminalEventAfterAttempt ==
    (pc = "done" /\ LogAttempt \in Range(audit)) =>
        LET at == CHOOSE i \in 1..Len(audit) : audit[i] = LogAttempt
        IN /\ Cardinality({j \in (at + 1)..Len(audit) :
                               audit[j].event \in TerminalEvents}) = 1
           /\ \A j \in 1..(at - 1) : audit[j].event \notin TerminalEvents

\* C3: dispatch never raises: every call ends by returning a mapping.
C3_DispatchNeverRaises == pc = "done" => result.kind = "return"

\* C4: with approval_mode AUTO_DENY a call whose input requires approval is
\* never executed and opens no prompt, and when it reaches the approval gate
\* (registered tool, sanitizer and allowlist passed) it ends with
\* {error: "Operation denied by operator"}, the audit log holding
\* tool_attempt followed by tool_denied with reason human_denied.
C4_AutoDenyDenies ==
    (/\ pc # "idle"
     /\ registry_config.approval_mode = "auto_deny"
     /\ RequiresApproval(tool_name, ToolInput(tool_input), GetApprovalPatterns)) =>
        /\ "execute" \notin Range(stages)
        /\ effects = NoEffect
        /\ prompts = 0
        /\ (/\ tool_name \in RegisteredTools
            /\ Sanitize(tool_name, tool_input).ok
            /\ CheckAllowlist(tool_name, servers, tool_input).outcome = "ok") =>
               /\ EndedWith("approval", "Operation denied by operator")
               /\ audit = <<LogAttempt, LogDenied("human_denied")>>

\* C4 witness: an allowed command that needs approval was denied in
\* AUTO_DENY mode.
C4_Witness ==
    /\ registry_config.approval_mode = "auto_deny"
    /\ pc = "done"
    /\ tool_name = "run_local_command"
    /\ approval = "denied"
    /\ audit = <<LogAttempt, LogDenied("human_denied")>>

\* C5: every dispatch started by the daemon uses AUTO_DENY: no operation that
\* requires approval is executed and no operator prompt is opened.
C5_DaemonAutoDenies ==
    entry = "daemon" =>
        /\ prompts = 0
        /\ (/\ pc # "idle"
            /\ RequiresApproval(tool_name, ToolInput(tool_input), GetApprovalPatterns)) =>
               "execute" \notin Range(stages)

\* C6: run_local_command runs a command on the bastion only if the command
\* matches the allowlist of the role of the localhost entry, whatever other
\* fields the input carries.
C6_LocalCommandOnBastionAllowlist ==
    tool_name = "run_local_command" =>
        \A i \in 1..Len(effects) :
            (effects[i].kind = "exec" /\ effects[i].where = "local") =>
                /\ KnownServer(servers, Localhost)
                /\ IsCommandPermitted(effects[i].arg,
                                      GetServer(servers, Localhost).permissions)

\* The role whose permissions apply to a call: that of input.server when
\* the field is present and not empty, the localhost entry's otherwise.
EffectiveServer(input) ==
    IF "server" \in DOMAIN input /\ input["server"] # <<>>
    THEN input["server"] ELSE Localhost

\* C7: for an input with a path field, with or without a server field,
\* check_path_read runs before tool.execute, and a path outside the read
\* prefixes of the effective role never reaches execute.
C7_PathCheckedBeforeExecute ==
    ("path" \in DOMAIN tool_input /\ "execute" \in Range(stages)) =>
        /\ \E i \in 1..Len(checks) : checks[i].kind = "path" /\ checks[i].permitted
        /\ KnownServer(servers, EffectiveServer(tool_input))
        /\ IsPathReadable(tool_input["path"],
               GetServer(servers, EffectiveServer(tool_input)).permissions)

---------------------------------------------------------------------------
(* Properties of the pure checks (SpecSanitize, SpecCommand, SpecPath)     *)

ShellMeta == {";", "&", "|", "BQ", "$"}

NameFieldsOfTheSpec == {"server", "container", "service", "since"}

\* C8: sanitize rejects a value of server, container, service or since that
\* contains one of ; & | backquote $, and when it rejects nothing it returns
\* the input it was given, unchanged.
C8_SanitizeRejectsNameFields ==
    (fn = "sanitize" /\ fn_out.called) =>
        /\ (\E f \in NameFieldsOfTheSpec \cap DOMAIN fn_arg :
                HasAny(fn_arg[f], ShellMeta)) => ~fn_out.value.ok
        /\ fn_out.value.ok => fn_out.value.value = fn_arg

\* C9: is_command_permitted answers false when allowed_commands is empty, and
\* false for every command that contains ; | & backquote, newline, carriage
\* return or NUL at any position, whatever the patterns (a lone * included).
C9_DangerousCommandNeverPermitted ==
    (fn = "is_command_permitted" /\ fn_out.called) =>
        /\ fn_perm.allowed_commands = <<>> => ~fn_out.value
        /\ HasAny(fn_arg, DangerousChars) => ~fn_out.value

\* The spellings of a path the specification calls identical: a trailing
\* slash added, a slash inside the path doubled, a "." segment inserted after
\* a slash inside the path.
SameSpellings(path) ==
    {path \o <<"/">>}
    \cup {SubSeq(path, 1, i) \o <<"/">> \o SubSeq(path, i + 1, Len(path)) :
            i \in {j \in 2..Len(path) : path[j] = "/"}}
    \cup {SubSeq(path, 1, i) \o <<".", "/">> \o SubSeq(path, i + 1, Len(path)) :
            i \in {j \in 1..Len(path) : path[j] = "/"}}

\* An absolute path that is not the root and does not begin with two slashes.
PlainAbsolute(path) ==
    /\ Len(path) >= 2
    /\ path[1] = "/"
    /\ path[2] # "/"

HasDotDotSegment(path) ==
    \E i \in 1..Len(Split(path, "/")) : Split(path, "/")[i] = <<".", ".">>

\* C10: is_path_readable gives one answer for /a/b/, /a//b, /a/./b and /a/b,
\* and answers false for every path that has a ".." segment.
C10_NormalizedAndNoDotDot ==
    (fn = "is_path_readable" /\ fn_out.called) =>
        /\ PlainAbsolute(fn_arg) =>
              \A q \in SameSpellings(fn_arg) :
                  IsPathReadable(q, fn_perm) = fn_out.value
        /\ HasDotDotSegment(fn_arg) => ~fn_out.value

---------------------------------------------------------------------------
(* Properties of requires_approval (SpecApproval)                          *)

\* The leaves of a nested value: what is left when every mapping is replaced
\* by its values and every list and tuple by its items.
RECURSIVE LeavesOf(_)
LeavesOf(value) ==
    IF value.t \in {"dict", "list", "tuple"}
    THEN UNION {LeavesOf(IF value.t = "dict" THEN value.v[i][2] ELSE value.v[i]) :
                    i \in 1..Len(value.v)}
    ELSE {value}

SameLetter(a, b) ==
    \/ a = b
    \/ {a, b} \in {{"r", "R"}, {"m", "M"}, {"d", "D"}, {"f", "F"}}

\* s contains p when the case of letters is ignored.
ContainsIgnoringCase(s, p) ==
    \E off \in 0..(Len(s) - Len(p)) :
        \A j \in 1..Len(p) : SameLetter(s[off + j], p[j])

\* C11: requires_approval is true exactly when the tool is neither
\* list_servers nor query_metrics and some string leaf of the input, at any
\* nesting of mappings, lists and tuples, contains some pattern, case ignored;
\* leaves that are not strings count for nothing and no pattern means false.
C11_RequiresApprovalIffLeafMatches ==
    (fn = "requires_approval" /\ fn_out.called) =>
        /\ fn_out.value =
              /\ fn_arg.tool \notin {"list_servers", "query_metrics"}
              /\ \E leaf \in LeavesOf(fn_arg.input) :
                     /\ leaf.t = "str"
                     /\ \E i \in 1..Len(fn_arg.patterns) :
                            ContainsIgnoringCase(leaf.v, fn_arg.patterns[i])
        /\ fn_arg.patterns = <<>> => ~fn_out.value

\* A pattern is found in a string two containers deep, inside a tuple, in
\* another case, beside a leaf that is not a string.
C11_Witness ==
    /\ fn = "requires_approval"
    /\ fn_out.called
    /\ fn_out.value
    /\ fn_arg.input =
           Dict(<<(<<(<<"a">>), Other(42)>>),
                  (<<(<<"k">>), Tuple(<<Str(<<"x", " ", "R", "M">>)>>)>>)>>)
    /\ fn_arg.patterns = <<(<<"s", "t">>), (<<" ", "R", "m">>)>>

---------------------------------------------------------------------------
(* Properties of the audit trail of a dispatch (specification Spec)        *)

AuditEvents == {audit[i].event : i \in 1..Len(audit)}

\* C12 as stated: a dispatch has no tool_attempt among its audit events
\* exactly when the sanitizer rejects its input.
C12_AttemptAbsentIffSanitizerRejected ==
    pc # "idle" =>
        ("tool_attempt" \notin AuditEvents <=> ~Sanitize(tool_name, tool_input).ok)

\* C12 as amended: a dispatch has no tool_attempt among its audit events
\* exactly when the tool is unknown or the sanitizer rejects its input.
C12_AttemptAbsentIffUnknownOrRejected ==
    pc # "idle" =>
        ("tool_attempt" \notin AuditEvents <=>
            \/ tool_name \notin RegisteredTools
            \/ ~Sanitize(tool_name, tool_input).ok)

C12_Witness ==
    /\ pc = "done"
    /\ tool_name \in RegisteredTools
    /\ ~Sanitize(tool_name, tool_input).ok
    /\ audit = <<LogDenied("sanitizer")>>

\* C13: every dispatch that does not end in tool_success has written at
\* least one audit record when it ends.
C13_NonSuccessIsAudited ==
    (pc = "done" /\ "tool_success" \notin AuditEvents) => audit # <<>>

\* C14: when the deadline elapses before execute returns, dispatch returns
\* the "Operation timed out" error and logs tool_timeout, and for that call
\* the tool's result is neither returned nor logged as success or error.
C14_TimeoutEndsTheCall ==
    /\ "tool_timeout" \in AuditEvents =>
          /\ pc = "done"
          /\ result = Returned(ErrorDict("Operation timed out"))
          /\ audit = <<LogAttempt, LogTimeout>>
          /\ ~tool_result.called
    /\ (pc = "done" /\ effects # NoEffect /\ ~tool_result.called) =>
          AuditEvents \cap {"tool_success", "tool_error", "tool_timeout"}
              \in {{"tool_timeout"}, {"tool_error"}}

C14_Witness ==
    /\ pc = "done"
    /\ effects # NoEffect
    /\ "tool_timeout" \in AuditEvents
    /\ result.value.error = "Operation timed out"

\* C15: when execute returns a ToolResult, tool_success is logged exactly
\* when exit_code is 0 and error is empty, tool_error otherwise; the mapping
\* returned always has output and exit_code, and has error only when the
\* ToolResult's error is not empty.
C15_ResultLoggedBySuccess ==
    tool_result.called =>
        LET r == tool_result.value
            ok == r.exit_code = 0 /\ r.error = ""
        IN /\ pc = "done"
           /\ audit[Len(audit)] = (IF ok THEN LogSuccess ELSE LogError)
           /\ "tool_success" \in AuditEvents <=> ok
           /\ "tool_error" \in AuditEvents <=> ~ok
           /\ result.kind = "return"
           /\ {"output", "exit_code"} \subseteq result.value.keys
           /\ result.value.exit_code = r.exit_code
           /\ "error" \in result.value.keys => r.error # ""

\* A result with exit code 0 and a non-empty error is logged as an error.
C15_Witness ==
    /\ tool_result.called
    /\ tool_result.value.exit_code = 0
    /\ tool_result.value.error = "stderr"
    /\ "tool_error" \in AuditEvents
    /\ "error" \in result.value.keys

---------------------------------------------------------------------------
(* Properties of _trim_history (SpecTrim)                                  *)

LastTwo(msgs) == SubSeq(msgs, Len(msgs) - 1, Len(msgs))

\* C17: _trim_history never evicts the last two messages: for a history of
\* two messages or more and any budget, the last two messages before the call
\* are the last two messages after it.
C17_TrimKeepsLastTwo ==
    (fn = "_trim_history" /\ fn_out.called /\ Len(fn_arg.messages) >= 2) =>
        /\ Len(fn_out.value) >= 2
        /\ LastTwo(fn_out.value) = LastTwo(fn_arg.messages)

---------------------------------------------------------------------------
(* Properties of the conversation loop (SpecSession)                       *)

\* process_message has just ended in one of the ways the contract names.
MessageEnded == client_pc = "ended" /\ ending # "raise"

Alternates(msgs) ==
    \A i \in 1..Len(msgs) :
        msgs[i].role = (IF i % 2 = 1 THEN "user" ELSE "assistant")

\* C16: after any sequence of process_message calls (ending by return, API
\* error, iteration cap or CancelledByUser) interleaved with _trim_history,
\* the history strictly alternates: user first, then assistant, and so on.
C16_HistoryAlternates == MessageEnded => Alternates(messages)

ToolUseIds(msg) ==
    LET uses == SelectSeq(msg.blocks, LAMBDA b : b.type = "tool_use")
    IN [j \in 1..Len(uses) |-> uses[j].id]

ToolResultIds(msg) ==
    LET results == SelectSeq(msg.blocks, LAMBDA b : b.type = "tool_result")
    IN [j \in 1..Len(results) |-> results[j].id]

WellFormedToolUse(msgs) ==
    \A i \in 1..Len(msgs) :
        (msgs[i].role = "assistant" /\ ToolUseIds(msgs[i]) # <<>>) =>
            /\ i < Len(msgs)
            /\ msgs[i + 1].role = "user"
            /\ ToolResultIds(msgs[i + 1]) = ToolUseIds(msgs[i])

\* C18: whenever process_message ends (return, API error at any iteration,
\* iteration cap, CancelledByUser), every assistant message of the history
\* that holds tool_use blocks is immediately followed by a user message with
\* exactly one tool_result per tool_use, in the same order, with the same id.
C18_ToolUseHasResults == MessageEnded => WellFormedToolUse(messages)

\* C19: once the cancel event is set, no new LLM request and no new tool
\* dispatch begins, and the dispatch in flight ends with its real result
\* appended to the tool results.
C19_NothingStartsAfterCancel ==
    [][cancel_event = "set" =>
           /\ api_requests' <= api_requests
           /\ dispatches' <= dispatches
           /\ (client_pc = "dispatching" /\ client_pc' = "tools") =>
                  tool_results' = Append(tool_results,
                                         ToolResultBlock(Head(pending).id))]_vars

\* C20: when a message processed by the daemon ends by CancelledByUser, the
\* daemon sends "cancelled" on its connection, saves the session with the
\* history reached so far, and goes on to read the next input of the session.
C20_DaemonSurvivesCancel ==
    [][(entry = "daemon" /\ client_pc = "ended" /\ ending = "cancelled") =>
           /\ conn # "none"
           /\ Len(sent') >= 1 /\ sent'[1] = "cancelled"
           /\ store' = Saved(messages)
           /\ messages' = messages
           /\ client_pc' = "input"]_vars

\* The daemon has answered a cancel frame of a connected client after a tool
\* ran: the event is out, the history with the tool results is saved.
C20_Witness ==
    /\ entry = "daemon"
    /\ client_pc = "input"
    /\ ending = "cancelled"
    /\ conn = "open"
    /\ sent = <<"cancelled", "done">>
    /\ store.saved
    /\ store.messages = messages
    /\ Len(messages) >= 3

\* C21: no two dispatches of a conversation overlap, and the dispatches of
\* one response start in the order of its tool_use blocks, each after the one
\* before it has returned: a dispatch starts only while none is in flight, for
\* the first block of the last assistant message that has no result yet.
C21_DispatchesInOrder ==
    [][dispatches' = dispatches + 1 =>
           /\ client_pc = "tools" /\ pc = "idle"
           /\ client_pc' = "dispatching"
           /\ messages # <<>>
           /\ LET uses == ToolUseIds(messages[Len(messages)])
                  done == Len(tool_results)
              IN /\ messages[Len(messages)].role = "assistant"
                 /\ done < Len(uses)
                 /\ [j \in 1..done |-> tool_results[j].id] = SubSeq(uses, 1, done)
                 /\ \E j \in 1..Len(pending) :
                        /\ pending[j].id = uses[done + 1]
                        /\ tool_name' = pending[j].name
                        /\ tool_input' = pending[j].input]_vars

\* The second tool of a response is dispatched after the first has returned
\* its result.
C21_Witness ==
    /\ client_pc = "dispatching"
    /\ tool_name = "run_local_command"
    /\ Len(tool_results) = 1
    /\ ~tool_results[1].cancelled
    /\ pc = "executing"

\* The part of a turn still to run, as a number that every step of the turn
\* lowers: the rounds left, then within a round the attempts left of the API
\* call, the blocks left of the response, the stages left of the dispatch.
InTurn == client_pc \in {"round", "api", "backoff", "tools", "dispatching"}

StagesLeft == CASE pc = "approval" -> 3 [] pc = "executing" -> 2 [] OTHER -> 1

RoundRank ==
    CASE client_pc = "round" -> 0
      [] client_pc = "tools" -> 4 * Len(pending) + 1
      [] client_pc = "dispatching" -> 4 * (Len(pending) - 1) + 1 + StagesLeft
      [] client_pc = "backoff" -> 10 + 2 * (RATE_LIMIT_MAX_RETRIES - attempt)
      [] client_pc = "api" -> 11 + 2 * (RATE_LIMIT_MAX_RETRIES - attempt)
      [] OTHER -> 0

TurnRank == 18 * (max_tool_iterations - iterations) + RoundRank

TurnStep == <<client_pc, pc, iterations, attempt, pending>>' #
            <<client_pc, pc, iterations, attempt, pending>>

\* C22: a turn makes at most max_tool_iterations LLM rounds; when the last
\* permitted round has asked for tools the loop stops with the safety-stop
\* error and process_message returns normally; every step of a turn brings
\* it nearer to its end, so the turn ends if the LLM calls and dispatches do.
C22_TurnIsBounded ==
    [][/\ iterations' <= max_tool_iterations'
       /\ (client_pc = "round" /\ iterations >= max_tool_iterations) =>
              /\ client_pc' = "ended" /\ ending' = "cap"
              /\ sent' = <<"error">>
              /\ messages' = messages
       /\ (client_pc = "ended" /\ ending = "cap") => client_pc' = "input"
       /\ (InTurn /\ TurnStep) =>
              \/ client_pc' = "ended"
              \/ TurnRank' \in 0..(TurnRank - 1)]_vars

\* A turn was stopped at the limit after its last round asked for a tool,
\* and the loop reads the next input.
C22_Witness ==
    /\ client_pc = "input"
    /\ ending = "cap"
    /\ iterations = 2
    /\ max_tool_iterations = 2
    /\ messages[Len(messages)].role = "user"
    /\ messages[Len(messages)].blocks # <<>>

\* C23: when an LLM call of a turn fails with an API error, at whatever
\* iteration, the error is shown, the message removed from the history is the
\* user's text message of this turn, and process_message returns.
C23_ApiErrorRemovesUserMessage ==
    [][/\ (client_pc = "api" /\ client_pc' = "ended" /\ ending' = "api_error") =>
              /\ sent' = <<"error">>
              /\ messages # <<>>
              /\ messages[Len(messages)].role = "user"
              /\ messages[Len(messages)].text
              /\ messages' = SubSeq(messages, 1, Len(messages) - 1)
       /\ (client_pc = "ended" /\ ending = "api_error") => client_pc' = "input"]_vars

\* The sound part: at the first iteration of a turn the pop removes the text
\* message the turn appended.
C23_FirstIterationOnly ==
    [][(client_pc = "api" /\ client_pc' = "ended" /\ ending' = "api_error"
        /\ iterations = 1) =>
              /\ messages[Len(messages)].text
              /\ messages' = SubSeq(messages, 1, Len(messages) - 1)]_vars

\* C24: within one LLM round a rate-limit error is retried at most three
\* times, after sleeps of 2, 4 and 8 seconds, so a round makes at most four
\* attempts; the fourth rate-limit error ends the turn as an API error.
C24_RateLimitRetries ==
    [][/\ attempt' \in 0..3
       /\ (client_pc = "api" /\ client_pc' = "backoff") =>
              /\ attempt < 3
              /\ sleeping' = <<2, 4, 8>>[attempt + 1]
              /\ sent' = <<"error">>
       /\ (client_pc = "backoff" /\ client_pc' = "api") =>
              /\ attempt' = attempt + 1
              /\ api_requests' = api_requests + 1
       /\ (client_pc = "api" /\ attempt = 3 /\ client_pc' # "api") =>
              \/ client_pc' = "tools"
              \/ client_pc' = "ended" /\ ending' \in {"return", "cancelled"}
              \/ /\ client_pc' = "ended" /\ ending' = "api_error"
                 /\ sent' = <<"error">>
                 /\ messages' = SubSeq(messages, 1, Len(messages) - 1)]_vars

\* Four attempts were made in the only round of a turn, and the turn ended
\* as an API error.
C24_Witness ==
    /\ client_pc = "ended"
    /\ ending = "api_error"
    /\ iterations = 1
    /\ attempt = 3
    /\ api_requests = 4

\* C26: the history is reset between sessions: a session opens with an empty
\* history and no saved file, and every message the daemon takes from a
\* connection is processed in the session that was opened for that
\* connection, also when the connection replaced a stale one while a message
\* was being processed.
C26_HistoryResetBetweenSessions ==
    [][/\ (client_pc = "waiting" /\ client_pc' = "input") =>
              messages' = <<>> /\ store' = NothingSaved
       /\ (entry = "daemon" /\ client_pc = "input" /\ client_pc' = "round") =>
              ~taken_over]_vars

\* The part of C26 about the sessions the session loop opens itself.
C26_NewSessionStartsEmpty ==
    [][(client_pc = "waiting" /\ client_pc' = "input") =>
              messages' = <<>> /\ store' = NothingSaved]_vars

DoneCount(events) == Len(SelectSeq(events, LAMBDA e : e = "done"))

\* save, then the events of the end of a message with one "done" last.
SavedThenDone ==
    /\ store' = Saved(messages)
    /\ sent' # <<>>
    /\ sent'[Len(sent')] = "done"
    /\ DoneCount(sent') = 1
    /\ client_pc' = "input"

\* C27: for every message the daemon processes, the session is saved and
\* then exactly one "done" is sent, after every other event of the message
\* and before any event of the next message.
C27_SavedThenOneDone ==
    [][(entry = "daemon" /\ client_pc = "ended") => SavedThenDone]_vars

\* The part of C27 for the messages whose process_message ends by return
\* or by CancelledByUser.
C27_UnlessProcessMessageRaises ==
    [][(entry = "daemon" /\ client_pc = "ended" /\ ending # "raise") =>
           SavedThenDone]_vars

\* A step that ends a daemon session: the loop goes back to wait_for_client.
SessionEnds == entry = "daemon" /\ client_pc # "waiting" /\ client_pc' = "waiting"

\* C28: however a daemon session ends (disconnect, /quit, cancellation, an
\* exception in the session loop), a non-empty history is saved under the
\* session's id before it is reset.
C28_HistorySavedAtSessionEnd ==
    [][(SessionEnds /\ messages # <<>>) =>
           (store' = Saved(messages) /\ messages' = <<>>)]_vars

\* A session has ended by an exception of process_message with a history to
\* save, and the history is in the store.
C28_Witness ==
    /\ entry = "daemon"
    /\ client_pc = "waiting"
    /\ ending = "raise"
    /\ store.saved
    /\ store.messages # <<>>
    /\ messages = <<>>

\* C32: sessions only append: the message list written by each save of a
\* session has the list written by the session's previous save as a prefix.
C32_SavesOnlyAppend ==
    [][(store.saved /\ store'.saved) => IsPrefix(store.messages, store'.messages)]_vars

\* The part of C32 for the configurations whose max_conversation_tokens no
\* history of these runs exceeds, so that _trim_history removes nothing.
C32_AppendsUnlessTrimmed ==
    [][(store.saved /\ store'.saved /\ max_conversation_tokens = 1000) =>
           IsPrefix(store.messages, store'.messages)]_vars

IsSuffix(s, t) == Len(s) <= Len(t) /\ SubSeq(t, Len(t) - Len(s) + 1, Len(t)) = s

Suffixes(t) == {SubSeq(t, i, Len(t)) : i \in 1..(Len(t) + 1)}

\* C37: _trim_history evicts only from the front: the history it leaves is
\* a suffix of the history it was given, it is the same history when the
\* estimate is within max_conversation_tokens, and the loop terminates:
\* every pass over a history the loop can be at leaves a shorter one.
C37_TrimEvictsFromFront ==
    (fn = "_trim_history" /\ fn_out.called) =>
        /\ IsSuffix(fn_out.value, fn_arg.messages)
        /\ EstimateTokens(fn_arg.messages) <= fn_arg.budget =>
               fn_out.value = fn_arg.messages
        /\ \A msgs \in Suffixes(fn_arg.messages) :
               (EstimateTokens(msgs) > fn_arg.budget /\ Len(msgs) > 2) =>
                   /\ Len(EvictFront(msgs)) < Len(msgs)
                   /\ IsSuffix(EvictFront(msgs), msgs)

\* A call that evicted messages and left some.
C37_Witness ==
    /\ fn = "_trim_history"
    /\ fn_out.called
    /\ fn_out.value # fn_arg.messages
    /\ Len(fn_out.value) = 2
    /\ Len(fn_arg.messages) = 4

\* Every user message made of tool_result blocks comes right after the
\* assistant message with the matching tool_use blocks.
ResultsAttached(msgs) ==
    \A i \in 1..Len(msgs) :
        (msgs[i].role = "user" /\ ToolResultIds(msgs[i]) # <<>>) =>
            /\ i > 1
            /\ msgs[i - 1].role = "assistant"
            /\ ToolUseIds(msgs[i - 1]) = ToolResultIds(msgs[i])

C38_AttachedUnlessTrimmed ==
    (client_pc = "api" /\ max_conversation_tokens = 1000) => ResultsAttached(messages)

---------------------------------------------------------------------------
(* Properties of the connections (SpecConnect)                            *)

\* C25: at most one connection is installed at any time; a connection that
\* arrives while another is installed either replaces it because that one was
\* stale, or gets exactly "error", "done" and is closed; no connection ends
\* up neither installed nor rejected.
C25_OneConnection ==
    /\ \A p \in Peers : peers[p].pos = "installed" <=> installed = p
    /\ \A p \in Peers :
           /\ peers[p].pos # "crashed"
           /\ peers[p].pos = "replaced" => peers[p].stale
           /\ peers[p].pos = "rejected" =>
                  peers[p].events = <<"error", "done">> /\ peers[p].closed
           /\ peers[p].pos \in {"installed", "replaced", "cleaned"} =>
                  peers[p].events = <<>>

\* The two parts of C25 that a suspended probe breaks, one by one.
C25_NoCrash == \A p \in Peers : peers[p].pos # "crashed"

C25_ReplacedWasStale == \A p \in Peers : peers[p].pos = "replaced" => peers[p].stale

---------------------------------------------------------------------------
(* Properties of the session store (SpecStore, SpecRoundTrip)             *)

\* C29: the created_at of a session is preserved across saves: for every
\* session id, fresh or resumed, a save of the daemon over an existing
\* session file writes the created_at the file already had.
C29_CreatedAtPreserved ==
    [][\A sid \in DOMAIN files :
           sid \in DOMAIN files' /\ files'[sid].created_at = files[sid].created_at]_vars

\* The part of C29 for resumed sessions, whose created_at was loaded.
C29_ResumedKeepsCreatedAt ==
    [][session.created_at # <<>> =>
           \A sid \in DOMAIN files :
               sid \in DOMAIN files' /\ files'[sid].created_at = files[sid].created_at]_vars

\* Every save of the daemon writes the current time as updated_at and leaves
\* the other sessions' files alone.
C29_SaveWritesOneFile ==
    [][files' # files =>
           /\ files'[session.session_id].updated_at = clock
           /\ \A sid \in DOMAIN files \ {session.session_id} : files'[sid] = files[sid]]_vars

\* Python values json writes and reads back unchanged.
RECURSIVE JsonNative(_)
JsonNative(obj) ==
    IF obj.t \in {"str", "other"} THEN TRUE
    ELSE IF obj.t = "list" THEN \A i \in 1..Len(obj.v) : JsonNative(obj.v[i])
    ELSE IF obj.t = "dict" THEN \A i \in 1..Len(obj.v) : JsonNative(obj.v[i][2])
    ELSE FALSE

\* C30: save(sid, msgs, created_at=t) followed by load(sid) returns msgs
\* and t, for every session id, message list and timestamp.
C30_SaveLoadRoundTrip ==
    (fn = "save_load" /\ fn_out.called) =>
        fn_out.value = <<fn_arg.messages, fn_arg.created_at>>

\* The part of C30 for a non-zero timestamp and messages of JSON's own types.
C30_RoundTripOfJsonValues ==
    (fn = "save_load" /\ fn_out.called /\ fn_arg.created_at # 0
         /\ JsonNative(List(fn_arg.messages))) =>
        fn_out.value = <<fn_arg.messages, fn_arg.created_at>>

\* With the timestamp 0 load() returns the time of the save.
C30_ZeroTimestampLost ==
    (fn = "save_load" /\ fn_out.called /\ fn_arg.created_at = 0) =>
        (fn_out.value[1] = JsonLoad(JsonDump(List(fn_arg.messages))).v
             /\ fn_out.value[2] = fn_arg.now)

\* C31: saves are atomic: at every point of a save and after a crash at any
\* step of it, <sid>.json is absent, the complete previous version or the
\* complete new version, and neither load nor list_sessions reads a partly
\* written <sid>.json.
C31_SaveIsAtomic ==
    /\ \A n \in DOMAIN files : n[2] = "json" => Complete(files[n])
    /\ \A content \in session.observed : Complete(content)
    /\ session.pc # "idle" =>
           \/ FileAt(files, JsonName(session.session_id)) = session.previous
           \/ FileAt(files, JsonName(session.session_id)) =
                  <<Content(session.version, Chunks)>>

\* A save crashed with its temporary file half written, over an earlier
\* version of the session file, which a reader then read.
C31_Witness ==
    /\ session.pc = "crashed"
    /\ session.previous # <<>>
    /\ TmpName(session.session_id) \in DOMAIN files
    /\ ~Complete(files[TmpName(session.session_id)])
    /\ session.previous[1] \in session.observed

\* The step reads the first frame of a connection.
FirstFrameRead == session.frames = 0 /\ session'.frames = 1

\* What a first frame with `resume` must lead to.
ResumeHonoured ==
    IF session'.last_metadata = <<>> THEN TRUE
    ELSE LET sid == session'.last_metadata[1]
         IN IF sid \in DOMAIN files
            THEN /\ session'.messages = Load(files, sid)[1]
                 /\ session'.events = <<ResumedInfo(sid, Len(Load(files, sid)[1]))>>
                 /\ session'.session_id = sid
            ELSE /\ session'.messages = <<>>
                 /\ session'.events = <<NotFoundError(sid)>>
                 /\ session'.session_id \notin DOMAIN files

\* C33: a `resume` on the first frame of a connection installs the saved
\* history before the frame's message is processed, emits the "Resumed
\* session" info and directs every later save to the resumed id, or, if the
\* session is missing, emits the "not found" error and starts a fresh
\* session; a `resume` on a later frame has no effect.
C33_ResumeOnFirstFrame ==
    [][/\ FirstFrameRead => ResumeHonoured
       /\ (session.frames > 0 /\ session'.frames > session.frames) =>
              /\ session'.session_id = session.session_id
              /\ session'.messages = session.messages
              /\ session'.events = <<>>
       /\ files' # files =>
              \A sid \in DOMAIN files' \ {session.session_id} :
                  sid \in DOMAIN files /\ files'[sid] = files[sid]]_vars

\* The part of C33 for the connections the session loop accepted itself in
\* wait_for_client.
C33_ResumeOfAcceptedConnection ==
    [][/\ (FirstFrameRead /\ session.pc = "waiting") => ResumeHonoured
       /\ (session.frames > 0 /\ session'.frames > session.frames) =>
              /\ session'.session_id = session.session_id
              /\ session'.messages = session.messages
              /\ session'.events = <<>>
       /\ files' # files =>
              \A sid \in DOMAIN files' \ {session.session_id} :
                  sid \in DOMAIN files /\ files'[sid] = files[sid]]_vars

---------------------------------------------------------------------------
(* Properties of check_command (SpecCheckCommand)                         *)

\* C35: for every forbidden class of the command field there is a command
\* that check_command rejects with the reason naming that class.
C35_EveryClassHasItsReason ==
    fn = "check_command" =>
        \E command \in CheckCommandInputs :
            SanCheckCommand(command) = PatternReasons[fn_arg.class]

\* The same for every class but "append to absolute path".
C35_EveryOtherClassHasItsReason ==
    (fn = "check_command" /\ fn_arg.class # 6) =>
        \E command \in CheckCommandInputs :
            SanCheckCommand(command) = PatternReasons[fn_arg.class]

\* A command that holds ">>" before an absolute path is rejected as a
\* redirect (or for an earlier pattern), never as an append; the reason of
\* every rejection is that of the first pattern that matches.
C35_AppendIsReportedAsRedirect ==
    (fn = "check_command" /\ fn_out.called) =>
        /\ fn_out.value # "append to absolute path"
        /\ HasAppendAbs(fn_arg.command) => HasRedirectAbs(fn_arg.command)
        /\ fn_out.value # Passed =>
               \E i \in 1..Len(PatternReasons) :
                   /\ ForbiddenMatches(fn_arg.command)[i] = fn_out.value
                   /\ fn_out.value = PatternReasons[i]
                   /\ \A j \in 1..(i - 1) : ForbiddenMatches(fn_arg.command)[j] = ""

---------------------------------------------------------------------------
(* Properties of the local command (SpecLocal)                            *)

\* C36: after dispatch has returned the timeout error for a
\* run_local_command call, the child process started by that call is no
\* longer running.
C36_TimeoutKillsTheChild == child.outcome = "timeout" => child.proc # "running"

\* After dispatch has returned the result of execute no child is running,
\* and a child whose spawn was cut short by the timeout has been killed.
C36_NoChildAfterAResult ==
    /\ child.outcome = "result" => child.proc \in {"none", "exited"}
    /\ (child.outcome = "timeout" /\ child.proc = "killed") => child.pc = "cancelled"

---------------------------------------------------------------------------
(* Properties of the interactive send session (SpecSend)                  *)

\* C39: the events consumed by the client's _read_events call made after
\* sending message k are the events the daemon emitted for message k: a
\* terminal event left over from an earlier message never ends the read
\* for a later one.
C39_ClientAndDaemonInStep ==
    \A c \in Range(send.consumed) : c.k = c.by

\* The part of C39 for the sessions in which no cancel was sent and
\* get_input raised nothing.
C39_InStepUntilCancelOrError ==
    (send.cancels = 0 /\ send.raised # "RuntimeError") => C39_ClientAndDaemonInStep

\* C39 for the sessions in which get_input raised nothing: refuted by the
\* done that follows a cancelled, which the next read consumes.
C39_InStepWhileGetInputReturns ==
    send.raised = "none" => C39_ClientAndDaemonInStep

\* C40: whenever the session loop calls get_input, the monitor task of the
\* previous message has stopped waiting on the reader.
C40_OneWaitingReader == send.dpc = "call_input" => send.monitor = "none"

\* The part of C40 that asyncio enforces: get_input never waits for data
\* while the monitor is registered with the reader.
C40_NeverTwoWaiters == send.dpc = "input" => send.monitor = "none"

---------------------------------------------------------------------------
(* Properties of the shutdown (SpecStop, SpecStopFair)                    *)

Exited == daemon.loop = "exited" /\ daemon.server = "closed" /\ ~daemon.socket

\* C34: after stop() is called the session loop eventually exits with the
\* server closed and the socket file unlinked, whether stop() ran while the
\* loop was in wait_for_client or while it was serving a session.
C34_StopEndsTheLoop == daemon.shutdown ~> Exited

\* The part of C34 for a stop() that runs while the loop is in
\* wait_for_client.
C34_StopWhileWaiting ==
    (daemon.shutdown /\ daemon.stopped_in = "waiting") ~> Exited

\* After stop() the server is closed and no client is installed, and the
\* socket file is unlinked once the stop tasks have ended.
C34_StopClosesTheServer ==
    daemon.shutdown =>
        /\ daemon.server = "closed"
        /\ ~daemon.reader
        /\ (daemon.stops = 0 /\ daemon.loop \notin {"stopping", "unlinking"}
                /\ daemon.signals > 0) => ~daemon.socket

\* Where C34 fails: stop() has run, and the loop waits in wait_for_client
\* on an event that was cleared after stop() set it.
C34_NeverStuckAfterStop ==
    (daemon.shutdown /\ daemon.loop = "waiting") => daemon.client_connected

=============================================================================
